---- MODULE Spec2Model ----
(***************************************************************************)
(* PV-Power-Predictor backend: the NASA POWER client's fetch loop          *)
(* (nasa_power_client.py) and the PV model handler's load / predict path   *)
(* (model_handler.py).                                                     *)
(***************************************************************************)
EXTENDS Integers, Sequences, FiniteSets, TLC

(***************************************************************************)
(* Bounds of the model.                                                    *)
(***************************************************************************)
MaxRetriesBound == 3
MaxDelay == 2

VARIABLES
    \* NASAPowerGEOSITClient.fetch_data
    f_pc,          \* position of fetch_data: "idle", "loop", "returned", "raised"
    max_retries,   \* fetch_data's max_retries argument
    retry_delay,   \* fetch_data's retry_delay argument
    attempt,       \* the loop variable of `for attempt in range(max_retries)`
    f_hist,        \* outcome of every transport attempt made, in order
    f_waits,       \* every time.sleep(wait_time) made, in order
    f_ret,         \* what fetch_data returned or raised
    \* PVModelHandler
    file,          \* what the file at self.model_path holds
    h_exists,      \* a constructed handler is held by the caller
    model,         \* self.model
    is_loaded,     \* self.is_loaded
    model_info,    \* self.model_info
    ensemble_info, \* self.ensemble_info
    \* the thread running load_model
    l_pc,          \* "idle", "open", "dispatch", "ens_info", "set_loaded",
                   \* "extract", "except", "except2"
    l_obj,         \* loaded_object
    l_err,         \* the exception load_model is raising or raised last
    l_ctor,        \* load_model was called by __init__
    h_state,       \* "Unloaded", "Loading", "Loaded", "Failed": set when
                   \* load_model is entered, returns, or raises
    h_prev,        \* h_state when the current or last load_model was entered
    h_stable,      \* the handler's fields when load_model last returned or raised
    \* the thread running predict
    p_pc,          \* "idle", "check_loaded", "check_model", "validate", "invoke",
                   \* "report", "returned", "raised"
    p_df,          \* predict's argument df
    p_input,       \* df_processed, the table handed to self.model.predict
    p_invoked,     \* the model whose predict was called (NoneModel: none was)
    p_raw,         \* what that model returned
    p_ret,         \* what predict returned or raised
    p_warn,        \* validate_input_data printed the feature count warning
    p_read,        \* the handler fields this call has read so far
    p_obs,         \* the value each of them had when read
    p_versions,    \* the complete handler states in force at some time of this call
    \* a call of a client function, of the handler's health check or of an
    \* endpoint of app.py
    r_pc,          \* its position: "idle", a position inside it, or "done"
    r_op,          \* the function or endpoint called
    r_args,        \* its arguments, and the clock reading it works with
    r_ret,         \* what it returned or raised
    r_warn,        \* the warnings it emitted
    r_df,          \* the table it holds (df)
    fs             \* the files written to the working directory so far

fetchVars == <<f_pc, max_retries, retry_delay, attempt, f_hist, f_waits, f_ret>>

handlerVars == <<file, h_exists, model, is_loaded, model_info, ensemble_info>>

loadVars == <<l_pc, l_obj, l_err, l_ctor, h_state, h_prev, h_stable>>

predictVars ==
    <<p_pc, p_df, p_input, p_invoked, p_raw, p_ret, p_warn, p_read, p_obs, p_versions>>

reqVars == <<r_pc, r_op, r_args, r_ret, r_warn, r_df, fs>>

vars == <<fetchVars, handlerVars, loadVars, predictVars, reqVars>>

(***************************************************************************)
(* Numbers.  A cell of a table, a weight or a prediction is a float: NaN,  *)
(* +inf, -inf or a finite value, kept as a reduced fraction n/d.           *)
(***************************************************************************)
NaN == [k |-> "nan", n |-> 0, d |-> 1]
PInf == [k |-> "pinf", n |-> 0, d |-> 1]
NInf == [k |-> "ninf", n |-> 0, d |-> 1]

Abs(i) == IF i < 0 THEN -i ELSE i

RECURSIVE Gcd(_, _)
Gcd(a, b) == IF b = 0 THEN a ELSE Gcd(b, a % b)

\* The finite value n/d (d > 0), reduced.
Fin(n, d) ==
    LET g == Gcd(Abs(n), d) IN [k |-> "fin", n |-> n \div g, d |-> d \div g]

Int2V(i) == Fin(i, 1)

IsNaN(v) == v.k = "nan"
IsInf(v) == v.k \in {"pinf", "ninf"}
IsFinite(v) == v.k = "fin"

Sign(v) ==
    CASE v.k = "pinf" -> 1
      [] v.k = "ninf" -> -1
      [] v.k = "fin" -> (IF v.n > 0 THEN 1 ELSE IF v.n < 0 THEN -1 ELSE 0)
      [] OTHER -> 0

\* IEEE addition: NaN absorbs, inf + -inf = NaN.
AddV(a, b) ==
    CASE IsNaN(a) \/ IsNaN(b) -> NaN
      [] IsInf(a) /\ IsInf(b) -> (IF a.k = b.k THEN a ELSE NaN)
      [] IsInf(a) -> a
      [] IsInf(b) -> b
      [] OTHER -> Fin(a.n * b.d + b.n * a.d, a.d * b.d)

\* IEEE multiplication: NaN absorbs, 0 * inf = NaN.
MulV(a, b) ==
    CASE IsNaN(a) \/ IsNaN(b) -> NaN
      [] IsInf(a) \/ IsInf(b) ->
            (IF Sign(a) * Sign(b) = 0 THEN NaN
             ELSE IF Sign(a) * Sign(b) > 0 THEN PInf ELSE NInf)
      [] OTHER -> Fin(a.n * b.n, a.d * b.d)

\* Division by a positive count.
DivByCount(a, c) == IF IsFinite(a) THEN Fin(a.n, a.d * c) ELSE a

LessV(a, b) ==
    CASE IsNaN(a) \/ IsNaN(b) -> FALSE
      [] a.k = "ninf" -> b.k # "ninf"
      [] a.k = "pinf" -> FALSE
      [] b.k = "pinf" -> TRUE
      [] b.k = "ninf" -> FALSE
      [] OTHER -> a.n * b.d < b.n * a.d

\* Python's a <= b on floats: False as soon as one side is NaN.
LeqV(a, b) == ~IsNaN(a) /\ ~IsNaN(b) /\ ~LessV(b, a)

RECURSIVE SumSeq(_)
SumSeq(s) == IF s = <<>> THEN Int2V(0) ELSE AddV(s[1], SumSeq(Tail(s)))

SelectNotNaN(s) == SelectSeq(s, LAMBDA v : ~IsNaN(v))

(***************************************************************************)
(* Tables.  A DataFrame is a function from its column names to columns of  *)
(* equal length (one cell per row).                                        *)
(***************************************************************************)
Columns == {"T2M", "WS2M"}

NRows(t) == Len(t[CHOOSE c \in DOMAIN t : TRUE])

\* Series.mean(), skipna=True: NaN cells are left out, infinite ones are not;
\* a column with no value left has mean NaN.
ColMean(col) ==
    LET kept == SelectNotNaN(col) IN
    IF kept = <<>> THEN NaN ELSE DivByCount(SumSeq(kept), Len(kept))

FillColZeroFallback(col) ==
    LET m == ColMean(col) IN
    [i \in 1..Len(col) |->
        IF IsNaN(col[i]) THEN (IF IsNaN(m) THEN Int2V(0) ELSE m) ELSE col[i]]

\* One column of df.fillna(df.mean()): a NaN mean fills nothing.
FillCol(col) ==
    LET m == ColMean(col) IN
    [i \in 1..Len(col) |-> IF IsNaN(col[i]) THEN m ELSE col[i]]

\* df.fillna(df.mean())
FillNaWithMean(t) == [c \in DOMAIN t |-> FillCol(t[c])]

\* np.isinf(...).any().any()
AnyInf(t) == \E c \in DOMAIN t : \E i \in 1..Len(t[c]) : IsInf(t[c][i])

ReplaceInfPositiveOnly(t) ==
    [c \in DOMAIN t |->
        [i \in 1..Len(t[c]) |-> IF t[c][i].k = "pinf" THEN NaN ELSE t[c][i]]]

\* df.replace([np.inf, -np.inf], np.nan)
ReplaceInf(t) ==
    [c \in DOMAIN t |->
        [i \in 1..Len(t[c]) |-> IF IsInf(t[c][i]) THEN NaN ELSE t[c][i]]]

\* preprocess_data: the table it returns
Preprocess(t) ==
    LET filled == FillNaWithMean(t) IN
    IF AnyInf(filled) THEN FillNaWithMean(ReplaceInf(filled)) ELSE filled

PreprocessInPlace(t) == [df |-> Preprocess(t), df_processed |-> Preprocess(t)]

\* preprocess_data works on df.copy() (line 164), and fillna and replace
\* return new tables: the caller's df afterwards, and df_processed
PreprocessData(t) == [df |-> t, df_processed |-> Preprocess(t)]

(***************************************************************************)
(* Regressors.  A fitted model is opaque to the handler: it is known here  *)
(* by how its predict answers (beh), the constant it predicts (c) and its  *)
(* n_features_in_ attribute (nfeat, 0 when it has none).                   *)
(*   const    c for every row                                              *)
(*   nan      NaN for every row                                            *)
(*   inf      +inf for every row                                           *)
(*   passnan  NaN for a row holding a NaN feature, c for any other row     *)
(*   raise    predict raises                                               *)
(***************************************************************************)
NoBase == [beh |-> "none", c |-> 0, nfeat |-> 0]

Regressor(beh, c, nfeat) == [beh |-> beh, c |-> c, nfeat |-> nfeat]

Failure(err) == [ok |-> FALSE, err |-> err, out |-> <<>>]
Success(out) == [ok |-> TRUE, err |-> "none", out |-> out]

RowHasNaN(X, i) == \E c \in DOMAIN X : IsNaN(X[c][i])

\* model.predict(X) of a base regressor.
BasePredict(m, X) ==
    CASE m.beh = "const" -> Success([i \in 1..NRows(X) |-> Int2V(m.c)])
      [] m.beh = "nan" -> Success([i \in 1..NRows(X) |-> NaN])
      [] m.beh = "inf" -> Success([i \in 1..NRows(X) |-> PInf])
      [] m.beh = "passnan" ->
            Success([i \in 1..NRows(X) |-> IF RowHasNaN(X, i) THEN NaN ELSE Int2V(m.c)])
      [] OTHER -> Failure("ModelError")

(***************************************************************************)
(* EnsembleModel, model_handler.py lines 8-47.                             *)
(***************************************************************************)

\* The value of self.model: None, an object with predict, or an EnsembleModel
\* (names: the keys of its models dict in order; base: the models; weights).
NoneModel ==
    [type |-> "None", obj |-> NoBase, names |-> <<>>, base |-> <<>>, weights |-> <<>>]

OpaqueModel(m) ==
    [type |-> "Opaque", obj |-> m, names |-> <<>>, base |-> <<>>, weights |-> <<>>]

\* EnsembleModel.__init__
EnsembleModel(a) ==
    [type |-> "EnsembleModel", obj |-> NoBase, names |-> a.names, base |-> a.base,
     weights |-> a.weights]

Range(s) == {s[i] : i \in 1..Len(s)}

\* The generator of line 28, summed from Python's initial 0.
RECURSIVE SumProducts(_, _, _, _)
SumProducts(names, weights, preds, i) ==
    IF names = <<>> THEN Int2V(0)
    ELSE AddV(MulV(weights[names[Len(names)]], preds[names[Len(names)]][i]),
              SumProducts(SubSeq(names, 1, Len(names) - 1), weights, preds, i))

WeightedSumNormalized(names, weights, preds, i) ==
    LET total == SumSeq([j \in 1..Len(names) |-> weights[names[j]]])
        raw == SumProducts(names, weights, preds, i)
    IN IF IsFinite(total) /\ total.n > 0 /\ IsFinite(raw)
       THEN Fin(raw.n * total.d, raw.d * total.n) ELSE raw

\* weighted_pred = sum(self.weights[name] * predictions[name]
\*                     for name in self.model_names), for row i
WeightedSum(names, weights, preds, i) == SumProducts(names, weights, preds, i)

\* EnsembleModel.predict.  With no base model Python's sum() gives the scalar
\* 0, which has no rows.
EnsemblePredict(e, X) ==
    LET preds == [nm \in Range(e.names) |-> BasePredict(e.base[nm], X)] IN
    IF \E nm \in Range(e.names) : ~preds[nm].ok THEN Failure("ModelError")
    ELSE IF \E nm \in Range(e.names) : nm \notin DOMAIN e.weights THEN Failure("KeyError")
    ELSE IF e.names = <<>> THEN Success(<<>>)
    ELSE Success([i \in 1..NRows(X) |->
                    WeightedSum(e.names, e.weights,
                                [nm \in Range(e.names) |-> preds[nm].out], i)])

\* self.model.predict(df_processed)
ModelPredict(m, X) ==
    CASE m.type = "None" -> Failure("AttributeError")
      [] m.type = "Opaque" -> BasePredict(m.obj, X)
      [] OTHER -> EnsemblePredict(m, X)

ClampNone(v) == v

\* np.maximum(v, 0): NaN stays NaN
Clamp(v) == IF LessV(v, Int2V(0)) THEN Int2V(0) ELSE v

(***************************************************************************)
(* The model file.  pickle.load gives an object with predict (kind         *)
(* "model"), a dict (kind "dict": its keys, the values among them that     *)
(* have predict, and what is under 'models' and 'weights') or any other    *)
(* object (kind "other"); kind "missing" is no file at model_path.         *)
(***************************************************************************)
Artifact(kind, obj, keys, pred, names, base, weights) ==
    [kind |-> kind, obj |-> obj, keys |-> keys, pred |-> pred, names |-> names,
     base |-> base, weights |-> weights]

NoArtifact == Artifact("none", NoBase, {}, <<>>, <<>>, <<>>, <<>>)
MissingFile == Artifact("missing", NoBase, {}, <<>>, <<>>, <<>>, <<>>)
OtherObject == Artifact("other", NoBase, {}, <<>>, <<>>, <<>>, <<>>)
DirectArtifact(m) == Artifact("model", m, {}, <<>>, <<>>, <<>>, <<>>)
DictArtifact(keys, pred, names, base, weights) ==
    Artifact("dict", NoBase, keys, pred, names, base, weights)

(***************************************************************************)
(* PVModelHandler.load_model, model_handler.py lines 59-108.               *)
(***************************************************************************)
NoEns == [set |-> FALSE, base_models |-> <<>>, weights |-> <<>>]
NoInfo == [set |-> FALSE, model_type |-> "", feature_count |-> 0, ens |-> NoEns]

NoErr == [type |-> "none", reports |-> "none", keys |-> {}]
Err(type, reports, keys) == [type |-> type, reports |-> reports, keys |-> keys]

\* possible_keys = ['model', 'trained_model', 'clf', 'regressor', 'estimator']
possible_keys == <<"model", "trained_model", "clf", "regressor", "estimator">>

\* hasattr(loaded_object, 'predict')
HasPredict(a) == a.kind = "model"

IsEnsembleDictEitherKey(a) == "models" \in a.keys \/ "weights" \in a.keys

\* 'models' in loaded_object and 'weights' in loaded_object
IsEnsembleDict(a) == "models" \in a.keys /\ "weights" \in a.keys

\* key in loaded_object and hasattr(loaded_object[key], 'predict')
KeyHoldsModel(a, key) == key \in a.keys /\ key \in DOMAIN a.pred

FoundKeyLast(a) ==
    LET hits == {i \in 1..Len(possible_keys) : KeyHoldsModel(a, possible_keys[i])} IN
    IF hits = {} THEN 0 ELSE CHOOSE i \in hits : \A j \in hits : j <= i

\* The loop over possible_keys: the index of the key it breaks at, 0 if none.
FoundKey(a) ==
    LET hits == {i \in 1..Len(possible_keys) : KeyHoldsModel(a, possible_keys[i])} IN
    IF hits = {} THEN 0 ELSE CHOOSE i \in hits : \A j \in hits : i <= j

\* The branch lines 68-98 take for loaded_object.
Branch(a) ==
    IF HasPredict(a) THEN "direct"
    ELSE IF a.kind = "dict"
    THEN IF IsEnsembleDict(a) THEN "ensemble"
         ELSE IF FoundKey(a) # 0 THEN "keyed" ELSE "no_model"
    ELSE "unsupported"

\* EnsembleModel.get_model_info
GetModelInfo(m) == [set |-> TRUE, base_models |-> m.names, weights |-> m.weights]

\* type(self.model).__name__: the stub regressors are named by what they do.
TypeName(m) == IF m.type = "EnsembleModel" THEN "WeightedEnsemble" ELSE m.obj.beh

\* n_features_in_ of the model (EnsembleModel: of its first base model)
FeatureCount(m) ==
    IF m.type = "EnsembleModel" THEN m.base[m.names[1]].nfeat ELSE m.obj.nfeat

\* the dict _extract_model_info builds
ExtractModelInfo(m, ens) ==
    [set |-> TRUE, model_type |-> TypeName(m), feature_count |-> FeatureCount(m),
     ens |-> IF ens.set THEN ens ELSE NoEns]

Fields ==
    [is_loaded |-> is_loaded, model |-> model, model_info |-> model_info,
     ensemble_info |-> ensemble_info]

PredictInFlight == p_pc \notin {"idle", "returned", "raised"}

\* __init__ up to its call of load_model
Construct ==
    /\ ~h_exists
    /\ l_pc = "idle"
    /\ model' = NoneModel
    /\ model_info' = NoInfo
    /\ is_loaded' = FALSE
    /\ ensemble_info' = NoEns
    /\ l_pc' = "open"
    /\ l_ctor' = TRUE
    /\ l_obj' = NoArtifact
    /\ l_err' = NoErr
    /\ h_prev' = h_state
    /\ h_state' = "Loading"
    /\ UNCHANGED <<file, h_exists, h_stable, fetchVars, reqVars, predictVars>>

\* reload_model: calls load_model on the handler in use
ReloadModel ==
    /\ h_exists
    /\ l_pc = "idle"
    /\ l_pc' = "open"
    /\ l_ctor' = FALSE
    /\ l_obj' = NoArtifact
    /\ l_err' = NoErr
    /\ h_prev' = h_state
    /\ h_state' = "Loading"
    /\ UNCHANGED <<handlerVars, h_stable, fetchVars, reqVars, predictVars>>

\* lines 61-65: the file is checked, opened and unpickled
LoadOpen ==
    /\ l_pc = "open"
    /\ IF file.kind = "missing"
       THEN /\ l_err' = Err("FileNotFoundError", "path", {})
            /\ l_pc' = "except"
            /\ UNCHANGED l_obj
       ELSE /\ l_obj' = file
            /\ l_pc' = "dispatch"
            /\ UNCHANGED l_err
    /\ UNCHANGED <<handlerVars, l_ctor, h_state, h_prev, h_stable, fetchVars, reqVars, predictVars>>

\* lines 68-98: self.model is assigned, or ValueError is raised
LoadDispatch ==
    /\ l_pc = "dispatch"
    /\ LET b == Branch(l_obj) IN
       CASE b = "direct" ->
                /\ model' = OpaqueModel(l_obj.obj)
                /\ l_pc' = "set_loaded"
                /\ UNCHANGED l_err
         [] b = "ensemble" ->
                /\ model' = EnsembleModel(l_obj)
                /\ l_pc' = "ens_info"
                /\ UNCHANGED l_err
         [] b = "keyed" ->
                /\ model' = OpaqueModel(l_obj.pred[possible_keys[FoundKey(l_obj)]])
                /\ l_pc' = "set_loaded"
                /\ UNCHANGED l_err
         [] b = "no_model" ->
                /\ l_err' = Err("ValueError", "keys", l_obj.keys)
                /\ l_pc' = "except"
                /\ UNCHANGED model
         [] OTHER ->
                /\ l_err' = Err("ValueError", "type", {})
                /\ l_pc' = "except"
                /\ UNCHANGED model
    /\ UNCHANGED <<file, h_exists, is_loaded, model_info, ensemble_info>>
    /\ UNCHANGED <<l_obj, l_ctor, h_state, h_prev, h_stable, fetchVars, reqVars, predictVars>>

\* line 78: self.ensemble_info = self.model.get_model_info()
LoadEnsembleInfo ==
    /\ l_pc = "ens_info"
    /\ ensemble_info' = GetModelInfo(model)
    /\ l_pc' = "set_loaded"
    /\ UNCHANGED <<file, h_exists, model, is_loaded, model_info>>
    /\ UNCHANGED <<l_obj, l_err, l_ctor, h_state, h_prev, h_stable, fetchVars, reqVars, predictVars>>

\* line 100: self.is_loaded = True
LoadSetLoaded ==
    /\ l_pc = "set_loaded"
    /\ is_loaded' = TRUE
    /\ l_pc' = "extract"
    /\ UNCHANGED <<file, h_exists, model, model_info, ensemble_info>>
    /\ UNCHANGED <<l_obj, l_err, l_ctor, h_state, h_prev, h_stable, fetchVars, reqVars, predictVars>>

\* line 101: _extract_model_info, after which load_model returns.  With no
\* base model next(iter(...)) raises StopIteration.
LoadExtractInfo ==
    /\ l_pc = "extract"
    /\ IF model.type = "EnsembleModel" /\ model.names = <<>>
       THEN /\ l_err' = Err("StopIteration", "none", {})
            /\ l_pc' = "except"
            /\ UNCHANGED <<model_info, h_exists, h_state, h_stable, p_versions>>
       ELSE /\ model_info' = ExtractModelInfo(model, ensemble_info)
            /\ l_pc' = "idle"
            /\ h_exists' = TRUE
            /\ h_state' = "Loaded"
            /\ h_stable' = [Fields EXCEPT !.model_info = model_info']
            /\ p_versions' = IF PredictInFlight THEN p_versions \cup {h_stable'}
                             ELSE p_versions
            /\ UNCHANGED l_err
    /\ UNCHANGED <<file, model, is_loaded, ensemble_info, l_obj, l_ctor, h_prev>>
    /\ UNCHANGED <<fetchVars, reqVars, p_pc, p_df, p_input, p_invoked, p_raw, p_ret, p_warn,
                   p_read, p_obs>>

LoadExceptKeepModel ==
    /\ l_pc = "except"
    /\ l_pc' = "except2"
    /\ UNCHANGED <<handlerVars, l_obj, l_err, l_ctor, h_state, h_prev, h_stable>>
    /\ UNCHANGED <<fetchVars, reqVars, predictVars>>

\* line 106: self.model = None
LoadExceptClearModel ==
    /\ l_pc = "except"
    /\ model' = NoneModel
    /\ l_pc' = "except2"
    /\ UNCHANGED <<file, h_exists, is_loaded, model_info, ensemble_info>>
    /\ UNCHANGED <<l_obj, l_err, l_ctor, h_state, h_prev, h_stable, fetchVars, reqVars, predictVars>>

LoadExceptKeepFlag ==
    /\ l_pc = "except2"
    /\ l_pc' = "idle"
    /\ h_state' = "Failed"
    /\ h_exists' = (h_exists /\ ~l_ctor)
    /\ h_stable' = Fields
    /\ p_versions' = IF PredictInFlight THEN p_versions \cup {h_stable'} ELSE p_versions
    /\ UNCHANGED <<file, model, is_loaded, model_info, ensemble_info, l_obj, l_err, l_ctor,
                   h_prev>>
    /\ UNCHANGED <<fetchVars, reqVars, p_pc, p_df, p_input, p_invoked, p_raw, p_ret, p_warn,
                   p_read, p_obs>>

\* lines 107-108: self.is_loaded = False; raise.  An exception leaving
\* __init__ leaves the caller without a handler.
LoadExceptClearFlag ==
    /\ l_pc = "except2"
    /\ is_loaded' = FALSE
    /\ l_pc' = "idle"
    /\ h_state' = "Failed"
    /\ h_exists' = (h_exists /\ ~l_ctor)
    /\ h_stable' = [Fields EXCEPT !.is_loaded = FALSE]
    /\ p_versions' = IF PredictInFlight THEN p_versions \cup {h_stable'} ELSE p_versions
    /\ UNCHANGED <<file, model, model_info, ensemble_info, l_obj, l_err, l_ctor, h_prev>>
    /\ UNCHANGED <<fetchVars, reqVars, p_pc, p_df, p_input, p_invoked, p_raw, p_ret, p_warn,
                   p_read, p_obs>>

\* The file at model_path is replaced from outside; the handler never writes it.
FileReplaced(a) ==
    /\ file # a
    /\ file' = a
    /\ UNCHANGED <<h_exists, model, is_loaded, model_info, ensemble_info>>
    /\ UNCHANGED <<loadVars, fetchVars, reqVars, predictVars>>

(***************************************************************************)
(* PVModelHandler.predict, model_handler.py lines 144-214.  Its argument   *)
(* is a DataFrame (kind "frame"), None (kind "none") or an object that is  *)
(* no DataFrame, such as a list (kind "other").                            *)
(***************************************************************************)
Frame(t) == [kind |-> "frame", t |-> t]
EmptyTable == [c \in Columns |-> <<>>]
NoneInput == [kind |-> "none", t |-> EmptyTable]
ListInput == [kind |-> "other", t |-> EmptyTable]

NoResult == [kind |-> "none", err |-> "none", out |-> <<>>]
Raised(err) == [kind |-> "error", err |-> err, out |-> <<>>]
Returned(out) == [kind |-> "predictions", err |-> "none", out |-> out]

NotLoadedError == "RuntimeError: Model is not loaded"

ValidateInputRowsUnchecked(df) ==
    CASE df.kind = "none" -> "ValueError: Input data is empty"
      [] df.kind = "other" -> "AttributeError"
      [] OTHER -> "ok"

\* validate_input_data: the exception it raises, or "ok"
ValidateInput(df) ==
    CASE df.kind = "none" -> "ValueError: Input data is empty"
      [] df.kind = "other" -> "AttributeError"
      [] NRows(df.t) = 0 -> "ValueError: Input data is empty"
      [] OTHER -> "ok"

\* lines 151-155: the warning, which raises nothing
FeatureCountWarning(info, df) ==
    /\ info.set
    /\ info.feature_count # 0
    /\ Cardinality(DOMAIN df.t) # info.feature_count

NoObs == [is_loaded |-> FALSE, model |-> NoneModel, model_info |-> NoInfo,
          ensemble_info |-> NoEns]

\* predict is called on the handler the caller holds
PredictCall(df) ==
    /\ h_exists
    /\ p_pc = "idle"
    /\ p_pc' = "check_loaded"
    /\ p_df' = df
    /\ p_input' = EmptyTable
    /\ p_invoked' = NoneModel
    /\ p_raw' = <<>>
    /\ p_ret' = NoResult
    /\ p_warn' = FALSE
    /\ p_read' = {}
    /\ p_obs' = NoObs
    /\ p_versions' = {h_stable}
    /\ UNCHANGED <<handlerVars, loadVars, fetchVars, reqVars>>

LoadedCheckSkipped(loaded) == FALSE

\* `if not self.is_loaded`
NotLoaded(loaded) == ~loaded

\* lines 179-180
PredictCheckLoaded ==
    /\ p_pc = "check_loaded"
    /\ p_read' = p_read \cup {"is_loaded"}
    /\ p_obs' = [p_obs EXCEPT !.is_loaded = is_loaded]
    /\ IF NotLoaded(is_loaded)
       THEN p_pc' = "raised" /\ p_ret' = Raised(NotLoadedError)
       ELSE p_pc' = "check_model" /\ UNCHANGED p_ret
    /\ UNCHANGED <<p_df, p_input, p_invoked, p_raw, p_warn, p_versions>>
    /\ UNCHANGED <<handlerVars, loadVars, fetchVars, reqVars>>

\* lines 182-186
PredictCheckModel ==
    /\ p_pc = "check_model"
    /\ IF model.type = "None"
       THEN p_pc' = "raised" /\ p_ret' = Raised("RuntimeError: Model object is None")
       ELSE p_pc' = "validate" /\ UNCHANGED p_ret
    /\ UNCHANGED <<p_df, p_input, p_invoked, p_raw, p_warn, p_read, p_obs, p_versions>>
    /\ UNCHANGED <<handlerVars, loadVars, fetchVars, reqVars>>

\* lines 188-189: validate_input_data, then preprocess_data
PredictValidate ==
    /\ p_pc = "validate"
    /\ LET v == ValidateInput(p_df) IN
       IF v # "ok"
       THEN /\ p_pc' = "raised"
            /\ p_ret' = Raised(v)
            /\ UNCHANGED <<p_input, p_warn, p_df>>
       ELSE /\ p_pc' = "invoke"
            /\ p_warn' = FeatureCountWarning(model_info, p_df)
            /\ p_input' = PreprocessData(p_df.t).df_processed
            /\ p_df' = [p_df EXCEPT !.t = PreprocessData(p_df.t).df]
            /\ UNCHANGED p_ret
    /\ UNCHANGED <<p_invoked, p_raw, p_read, p_obs, p_versions>>
    /\ UNCHANGED <<handlerVars, loadVars, fetchVars, reqVars>>

\* lines 192-198: the model is called, its output clamped and counted
PredictInvoke ==
    /\ p_pc = "invoke"
    /\ p_read' = p_read \cup {"model"}
    /\ p_obs' = [p_obs EXCEPT !.model = model]
    /\ LET res == ModelPredict(model, p_input) IN
       IF ~res.ok
       THEN /\ p_pc' = "raised"
            /\ p_ret' = Raised(res.err)
            /\ p_invoked' = IF res.err = "AttributeError" THEN NoneModel ELSE model
            /\ UNCHANGED p_raw
       ELSE /\ p_invoked' = model
            /\ p_raw' = res.out
            /\ IF Len(res.out) # NRows(p_df.t)
               THEN /\ p_pc' = "raised"
                    /\ p_ret' = Raised("ValueError: Prediction length mismatch")
               ELSE /\ p_pc' = "report"
                    /\ p_ret' = [NoResult EXCEPT
                                   !.out = [i \in 1..Len(res.out) |-> Clamp(res.out[i])]]
    /\ UNCHANGED <<p_df, p_input, p_warn, p_versions>>
    /\ UNCHANGED <<handlerVars, loadVars, fetchVars, reqVars>>

\* lines 200-206: the report is printed from self.model_info, and from
\* self.ensemble_info when self.model is an EnsembleModel; predictions are returned
PredictReport ==
    /\ p_pc = "report"
    /\ LET ens == model.type = "EnsembleModel" IN
       /\ p_read' = p_read \cup {"model_info"}
                        \cup (IF ens /\ model_info.set THEN {"ensemble_info"} ELSE {})
       /\ p_obs' = [p_obs EXCEPT !.model_info = model_info,
                                 !.ensemble_info = IF ens /\ model_info.set
                                                   THEN ensemble_info ELSE @]
       /\ IF ~model_info.set
          THEN p_pc' = "raised" /\ p_ret' = Raised("AttributeError")
          ELSE IF ens /\ ~ensemble_info.set
          THEN p_pc' = "raised" /\ p_ret' = Raised("TypeError")
          ELSE p_pc' = "returned" /\ p_ret' = Returned(p_ret.out)
    /\ UNCHANGED <<p_df, p_input, p_invoked, p_raw, p_warn, p_versions>>
    /\ UNCHANGED <<handlerVars, loadVars, fetchVars, reqVars>>

(***************************************************************************)
(* fetch_data: the request loop, nasa_power_client.py lines 198-229.       *)
(***************************************************************************)

\* What one pass through the try block can meet.
\*   timeout    requests.get raises requests.exceptions.Timeout
\*   http_error response.raise_for_status() raises HTTPError (non-2xx)
\*   bad_json   response.json() raises requests.exceptions.JSONDecodeError
\*   api_error  the body parses and data['messages'] holds an 'error' text
\*   ok         the body parses and flags no error
Outcomes == {"timeout", "http_error", "bad_json", "api_error", "ok"}

TransportFailures == {"timeout", "http_error", "bad_json"}

\* The exception class the try block raises for an outcome.
RaisedIn(o) ==
    CASE o \in {"timeout", "http_error", "bad_json"} -> "RequestException"
      [] o = "api_error" -> "Exception"
      [] OTHER -> "none"

CaughtForRetryAlsoGeneric(exc) == exc \in {"RequestException", "Exception"}

\* `except requests.exceptions.RequestException as e`
CaughtForRetry(exc) == exc = "RequestException"

RECURSIVE Pow2(_)
Pow2(n) == IF n <= 0 THEN 1 ELSE 2 * Pow2(n - 1)

WaitTimeConstant(delay, att) == delay

\* wait_time = retry_delay * (2 ** attempt)
WaitTime(delay, att) == delay * Pow2(att)

MoreAttemptsLeftOffByOne(att, n) == att < n

\* `if attempt < max_retries - 1`
MoreAttemptsLeft(att, n) == att < n - 1

NoReturn == [kind |-> "none", attempt |-> 0, cause |-> "none"]

\* fetch_data is called; the loop variable starts at 0.
FetchCall(n, d) ==
    /\ f_pc = "idle"
    /\ f_pc' = "loop"
    /\ max_retries' = n
    /\ retry_delay' = d
    /\ attempt' = 0
    /\ f_hist' = <<>>
    /\ f_waits' = <<>>
    /\ f_ret' = NoReturn
    /\ UNCHANGED <<handlerVars, loadVars, predictVars, reqVars>>

\* One pass of the loop body: the request, then return, raise, or sleep and go on.
FetchAttempt(o) ==
    /\ f_pc = "loop"
    /\ attempt < max_retries
    /\ f_hist' = Append(f_hist, o)
    /\ LET exc == RaisedIn(o) IN
       IF exc = "none"
       THEN /\ f_pc' = "returned"
            /\ f_ret' = [kind |-> "data", attempt |-> attempt + 1, cause |-> "none"]
            /\ UNCHANGED <<attempt, f_waits>>
       ELSE IF ~CaughtForRetry(exc)
       THEN /\ f_pc' = "raised"
            /\ f_ret' = [kind |-> "ProviderError", attempt |-> attempt + 1, cause |-> o]
            /\ UNCHANGED <<attempt, f_waits>>
       ELSE IF MoreAttemptsLeft(attempt, max_retries)
       THEN /\ f_waits' = Append(f_waits, WaitTime(retry_delay, attempt))
            /\ attempt' = attempt + 1
            /\ UNCHANGED <<f_pc, f_ret>>
       ELSE /\ f_pc' = "raised"
            /\ f_ret' = [kind |-> "DataSourceUnavailable", attempt |-> attempt + 1,
                         cause |-> o]
            /\ UNCHANGED <<attempt, f_waits>>
    /\ UNCHANGED <<max_retries, retry_delay>>
    /\ UNCHANGED <<handlerVars, loadVars, predictVars, reqVars>>

\* range(max_retries) is exhausted without a return or a raise: the function
\* falls off its end and returns None.
FetchFallThrough ==
    /\ f_pc = "loop"
    /\ ~(attempt < max_retries)
    /\ f_pc' = "returned"
    /\ f_ret' = [kind |-> "None", attempt |-> 0, cause |-> "none"]
    /\ UNCHANGED <<max_retries, retry_delay, attempt, f_hist, f_waits>>
    /\ UNCHANGED <<handlerVars, loadVars, predictVars, reqVars>>

\* No fetch_data call has been made.
FetchIdle ==
    /\ f_pc = "idle"
    /\ max_retries = 0
    /\ retry_delay = 1
    /\ attempt = 0
    /\ f_hist = <<>>
    /\ f_waits = <<>>
    /\ f_ret = NoReturn

(***************************************************************************)
(* Specifications.                                                         *)
(***************************************************************************)

\* predict has returned or raised and its caller goes on
PredictReturn ==
    /\ p_pc \in {"returned", "raised"}
    /\ p_pc' = "idle"
    /\ p_df' = NoneInput
    /\ p_input' = EmptyTable
    /\ p_invoked' = NoneModel
    /\ p_raw' = <<>>
    /\ p_ret' = NoResult
    /\ p_warn' = FALSE
    /\ p_read' = {}
    /\ p_obs' = NoObs
    /\ p_versions' = {}
    /\ UNCHANGED <<handlerVars, loadVars, fetchVars, reqVars>>

\* No handler has been constructed.
NoHandler ==
    /\ h_exists = FALSE
    /\ model = NoneModel
    /\ is_loaded = FALSE
    /\ model_info = NoInfo
    /\ ensemble_info = NoEns
    /\ l_pc = "idle"
    /\ l_obj = NoArtifact
    /\ l_err = NoErr
    /\ l_ctor = FALSE
    /\ h_state = "Unloaded"
    /\ h_prev = "Unloaded"
    /\ h_stable = NoObs

\* No predict call has been made.
PredictIdle ==
    /\ p_pc = "idle"
    /\ p_df = NoneInput
    /\ p_input = EmptyTable
    /\ p_invoked = NoneModel
    /\ p_raw = <<>>
    /\ p_ret = NoResult
    /\ p_warn = FALSE
    /\ p_read = {}
    /\ p_obs = NoObs
    /\ p_versions = {}

\* What a function called by a request returns or raises, and the state in
\* which no request is being served.
NoArgs == [none |-> TRUE]
NoResponse == [kind |-> "none", exc |-> "none", msg |-> "none"]
Raises(exc, msg) == [kind |-> "raise", exc |-> exc, msg |-> msg]
ReturnsTrue == [kind |-> "return", exc |-> "none", msg |-> "none"]

ReqIdle ==
    /\ r_pc = "idle"
    /\ r_op = "none"
    /\ r_args = NoArgs
    /\ r_ret = NoResponse
    /\ r_warn = {}
    /\ r_df = EmptyTable
    /\ fs = {}

\* The caller has its answer and the frames of the call are gone; the next
\* call can be made.
RequestReturn ==
    /\ r_pc = "done"
    /\ r_pc' = "idle"
    /\ r_op' = "none"
    /\ r_args' = NoArgs
    /\ r_ret' = NoResponse
    /\ r_warn' = {}
    /\ r_df' = EmptyTable
    /\ f_pc' = "idle"
    /\ max_retries' = 0
    /\ retry_delay' = 1
    /\ attempt' = 0
    /\ f_hist' = <<>>
    /\ f_waits' = <<>>
    /\ f_ret' = NoReturn
    /\ p_pc' = "idle"
    /\ p_df' = NoneInput
    /\ p_input' = EmptyTable
    /\ p_invoked' = NoneModel
    /\ p_raw' = <<>>
    /\ p_ret' = NoResult
    /\ p_warn' = FALSE
    /\ p_read' = {}
    /\ p_obs' = NoObs
    /\ p_versions' = {}
    /\ UNCHANGED <<fs, handlerVars, loadVars>>

\* ---- fetch_data alone
InitFetch == FetchIdle /\ NoHandler /\ PredictIdle /\ ReqIdle /\ file = MissingFile

NextFetch ==
    \/ \E n \in (-1)..MaxRetriesBound, d \in 1..MaxDelay : FetchCall(n, d)
    \/ \E o \in Outcomes : FetchAttempt(o)
    \/ FetchFallThrough

SpecFetch == InitFetch /\ [][NextFetch]_vars

\* ---- the handler with reload_model and predict running side by side (the
\* Flask server of app.py serves each request on a thread of its own)
ConstModel(c) == Regressor("const", c, 2)

TwoModels(cA, cB) == [nm \in {"A", "B"} |-> IF nm = "A" THEN ConstModel(cA) ELSE ConstModel(cB)]

Half == Fin(1, 2)

LifecycleArtifacts ==
    { DirectArtifact(ConstModel(5)),
      DictArtifact({"models", "weights"}, <<>>, <<"A", "B">>, TwoModels(10, 20),
                   [nm \in {"A", "B"} |-> Half]),
      DictArtifact({"scaler"}, <<>>, <<>>, <<>>, <<>>),
      MissingFile }

OneRow == [c \in Columns |-> <<Int2V(1)>>]

LifecycleInputs == {NoneInput, ListInput, Frame(EmptyTable), Frame(OneRow)}

Init == FetchIdle /\ NoHandler /\ PredictIdle /\ ReqIdle /\ file \in LifecycleArtifacts

LoadStep ==
    \/ LoadOpen
    \/ LoadDispatch
    \/ LoadEnsembleInfo
    \/ LoadSetLoaded
    \/ LoadExtractInfo
    \/ LoadExceptClearModel
    \/ LoadExceptClearFlag

PredictStep ==
    \/ PredictCheckLoaded
    \/ PredictCheckModel
    \/ PredictValidate
    \/ PredictInvoke
    \/ PredictReport
    \/ PredictReturn

Next ==
    \/ Construct
    \/ ReloadModel
    \/ LoadStep
    \/ \E a \in LifecycleArtifacts : FileReplaced(a)
    \/ (p_pc = "idle" /\ \E df \in LifecycleInputs : PredictCall(df))
    \/ PredictStep

Spec == Init /\ [][Next]_vars

\* ---- one handler, constructed from every shape of model file
MaxKeys == 3

KeyUniverse ==
    {"models", "weights", "model", "trained_model", "clf", "regressor", "estimator",
     "scaler"}

\* The model stored under a key: told apart by the constant it predicts.
ModelAt(key) ==
    ConstModel(CHOOSE i \in 1..8 :
        <<"model", "trained_model", "clf", "regressor", "estimator", "scaler", "models",
          "weights">>[i] = key)

KeySets == {K \in SUBSET KeyUniverse : Cardinality(K) <= MaxKeys}

\* What a dict holds under 'models' and under 'weights'.
ModelsValues(K) ==
    IF "models" \in K
    THEN {[names |-> <<"A", "B">>, base |-> TwoModels(10, 20)],
          [names |-> <<>>, base |-> <<>>]}
    ELSE {[names |-> <<>>, base |-> <<>>]}

WeightsValues(K) ==
    IF "weights" \in K
    THEN {[nm \in {"A", "B"} |-> Half], [nm \in {"A"} |-> Int2V(1)]}
    ELSE {<<>>}

DictArtifacts ==
    UNION { UNION { { DictArtifact(K, [k \in P |-> ModelAt(k)], mv.names, mv.base, w) :
                        mv \in ModelsValues(K), w \in WeightsValues(K) } :
                    P \in SUBSET (K \ {"models", "weights"}) } :
            K \in KeySets }

AllArtifacts ==
    DictArtifacts \cup {DirectArtifact(ConstModel(5)), OtherObject, MissingFile}

InitLoad == FetchIdle /\ NoHandler /\ PredictIdle /\ ReqIdle /\ file \in AllArtifacts

NextLoad ==
    \/ Construct
    \/ LoadStep

SpecLoad == InitLoad /\ [][NextLoad]_vars

\* ---- one handler and one caller of predict at a time: every model
WeightVals == {Half, Int2V(1), Int2V(0), Int2V(-1)}

BaseModels == {ConstModel(10), ConstModel(20), ConstModel(-5), Regressor("nan", 0, 2)}

DirectModels ==
    BaseModels \cup {ConstModel(0), Regressor("passnan", 5, 2), Regressor("raise", 0, 2),
                     Regressor("const", 7, 3), Regressor("raise", 0, 3)}

EnsembleArtifacts ==
    { DictArtifact({"models", "weights"}, <<>>, <<"A", "B">>,
                   [nm \in {"A", "B"} |-> IF nm = "A" THEN a ELSE b],
                   [nm \in {"A", "B"} |-> IF nm = "A" THEN wa ELSE wb]) :
        a \in BaseModels, b \in BaseModels, wa \in WeightVals, wb \in WeightVals }

PredictArtifacts ==
    {DirectArtifact(m) : m \in DirectModels}
        \cup {DictArtifact({"estimator"}, [k \in {"estimator"} |-> m], <<>>, <<>>, <<>>) :
                m \in DirectModels}
        \cup EnsembleArtifacts
        \cup {MissingFile}

PredictInputs ==
    { Frame(OneRow),
      Frame([c \in Columns |-> IF c = "T2M" THEN <<NaN, Int2V(1)>>
                               ELSE <<Int2V(2), Int2V(2)>>]),
      Frame(EmptyTable) }

InitPredict == FetchIdle /\ NoHandler /\ PredictIdle /\ ReqIdle /\ file \in PredictArtifacts

NextPredict ==
    \/ Construct
    \/ LoadStep
    \/ (p_pc = "idle" /\ \E df \in PredictInputs : PredictCall(df))
    \/ PredictStep

SpecPredict == InitPredict /\ [][NextPredict]_vars

\* ---- one handler and one caller of predict at a time: every table
MaxRows == 3

CellValues(c) ==
    IF c = "T2M" THEN {NaN, PInf, NInf, Int2V(1), Int2V(3)} ELSE {NaN, PInf}

TablesOf(n) ==
    { [c \in Columns |-> IF c = "T2M" THEN a ELSE b] :
        a \in [1..n -> CellValues("T2M")], b \in [1..n -> CellValues("WS2M")] }

PreInputs == {Frame(t) : t \in UNION {TablesOf(n) : n \in 1..MaxRows}}

PreArtifacts ==
    { DirectArtifact(Regressor("passnan", 5, 2)),
      DictArtifact({"models", "weights"}, <<>>, <<"A", "B">>, TwoModels(10, 20),
                   [nm \in {"A", "B"} |-> Half]),
      MissingFile }

InitPre == FetchIdle /\ NoHandler /\ PredictIdle /\ ReqIdle /\ file \in PreArtifacts

NextPre ==
    \/ Construct
    \/ LoadStep
    \/ (p_pc = "idle" /\ \E df \in PreInputs : PredictCall(df))
    \/ PredictStep

SpecPre == InitPre /\ [][NextPre]_vars

(***************************************************************************)
(* Claims about fetch_data.                                                *)
(***************************************************************************)

FailuresOnly(h) == \A i \in 1..Len(h) : h[i] \in TransportFailures

\* C1: with max_retries = N >= 1, k < N transport failures followed by a
\* success make fetch return that success after exactly k+1 attempts, and N
\* failures in a row make it fail with DataSourceUnavailable after exactly N
\* attempts, carrying the last underlying error.
C1_RetryPolicy ==
    (f_pc # "idle" /\ max_retries >= 1) =>
        /\ Len(f_hist) <= max_retries
        /\ (Len(f_hist) >= 1 /\ f_hist[Len(f_hist)] = "ok"
                /\ FailuresOnly(SubSeq(f_hist, 1, Len(f_hist) - 1)))
             => /\ f_pc = "returned"
                /\ f_ret = [kind |-> "data", attempt |-> Len(f_hist), cause |-> "none"]
        /\ (Len(f_hist) = max_retries /\ FailuresOnly(f_hist))
             => /\ f_pc = "raised"
                /\ f_ret = [kind |-> "DataSourceUnavailable", attempt |-> max_retries,
                            cause |-> f_hist[max_retries]]
        /\ (Len(f_hist) < max_retries /\ FailuresOnly(f_hist)) => f_pc = "loop"

\* Two failures, then a success on the third and last attempt.
C1_Witness ==
    /\ max_retries = 3
    /\ Len(f_hist) = 3
    /\ FailuresOnly(SubSeq(f_hist, 1, 2))
    /\ f_hist[3] = "ok"
    /\ f_pc = "returned"

\* C2: a response that parses but carries an error message ends fetch at
\* once with ProviderError: it is the last attempt made, and the only waits
\* are those of the failures before it.
C2_ProviderErrorNotRetried ==
    \A i \in 1..Len(f_hist) :
        f_hist[i] = "api_error" =>
            /\ i = Len(f_hist)
            /\ f_pc = "raised"
            /\ f_ret = [kind |-> "ProviderError", attempt |-> i, cause |-> "api_error"]
            /\ Len(f_waits) = i - 1

\* A provider error on the first of three allowed attempts.
C2_Witness ==
    /\ max_retries = 3
    /\ f_hist = <<"api_error">>
    /\ f_pc = "raised"
    /\ f_waits = <<>>

(***************************************************************************)
(* Claims about preprocess_data.                                           *)
(***************************************************************************)

\* The repair as specified: infinities become missing, then one mean-fill
\* with the mean of the column's finite values.
FiniteCells(col) == SelectSeq(col, IsFinite)

FiniteMean(col) ==
    IF FiniteCells(col) = <<>> THEN NaN
    ELSE DivByCount(SumSeq(FiniteCells(col)), Len(FiniteCells(col)))

TwoPassRepair(t) ==
    [c \in DOMAIN t |->
        [i \in 1..Len(t[c]) |-> IF IsFinite(t[c][i]) THEN t[c][i] ELSE FiniteMean(t[c])]]

\* preprocess_data has run in the current predict call
Preprocessed == p_pc \in {"invoke", "report", "returned"} \/ p_invoked # NoneModel

\* C8: preprocessing yields the table of the two-pass repair; an infinite
\* cell ends as the mean of its column's finite values and finite cells are
\* unchanged.
C8_PreprocessIsTwoPassRepair ==
    Preprocessed =>
        /\ p_input = TwoPassRepair(p_df.t)
        /\ \A c \in Columns : \A i \in 1..NRows(p_df.t) :
              /\ IsInf(p_df.t[c][i]) => p_input[c][i] = FiniteMean(p_df.t[c])
              /\ IsFinite(p_df.t[c][i]) => p_input[c][i] = p_df.t[c][i]

\* A column with +inf, a missing cell and the finite value 3 ends as 3, 3, 3.
C8_Witness ==
    /\ Preprocessed
    /\ p_df.t["T2M"] = <<PInf, NaN, Int2V(3)>>
    /\ p_input["T2M"] = <<Int2V(3), Int2V(3), Int2V(3)>>

NoFiniteValue(col) == \A i \in 1..Len(col) : ~IsFinite(col[i])

\* C9: a column with no finite value does not make preprocessing fail; its
\* cells are all missing afterwards and reach the model as missing, and the
\* other columns are repaired normally.
C9_AllMissingColumnStaysMissing ==
    /\ (h_exists /\ is_loaded /\ p_df.kind = "frame" /\ NRows(p_df.t) > 0)
          => p_pc # "raised"
    /\ Preprocessed =>
          \A c \in Columns :
              IF NoFiniteValue(p_df.t[c])
              THEN /\ \A i \in 1..NRows(p_df.t) : IsNaN(p_input[c][i])
                   /\ (p_pc = "returned" /\ p_invoked.obj.beh = "passnan")
                         => \A i \in 1..NRows(p_df.t) : IsNaN(p_raw[i])
              ELSE \A i \in 1..NRows(p_df.t) :
                      /\ IsFinite(p_input[c][i])
                      /\ IsFinite(p_df.t[c][i]) => p_input[c][i] = p_df.t[c][i]
                      /\ ~IsFinite(p_df.t[c][i]) => p_input[c][i] = FiniteMean(p_df.t[c])

\* WS2M is all missing and stays so; T2M's missing cell becomes the mean 2.
C9_Witness ==
    /\ p_pc = "returned"
    /\ p_df.t["WS2M"] = <<NaN, NaN, NaN>>
    /\ p_df.t["T2M"] = <<Int2V(1), NaN, Int2V(3)>>
    /\ p_input["WS2M"] = <<NaN, NaN, NaN>>
    /\ p_input["T2M"] = <<Int2V(1), Int2V(2), Int2V(3)>>
    /\ p_invoked.obj.beh = "passnan"
    /\ p_raw = <<NaN, NaN, NaN>>


(***************************************************************************)
(* Claims about the ensemble blend and the clamp.                          *)
(***************************************************************************)
RECURSIVE SumOverSet(_, _)
SumOverSet(S, f) ==
    IF S = {} THEN Int2V(0)
    ELSE LET x == CHOOSE y \in S : TRUE IN AddV(f[x], SumOverSet(S \ {x}, f))

\* self.model.predict returned, and self.model is an EnsembleModel
BlendReturned == p_invoked.type = "EnsembleModel" /\ p_raw # <<>>

\* C6: the blended output of every row is the sum over the model names m of
\* weight[m] x model[m].predict(X), with the persisted weights used as they
\* are: 10 and 20 blend to 15 under weights 1/2, 1/2 and to 30 under 1, 1.
C6_EnsembleBlend ==
    BlendReturned =>
        \A i \in 1..NRows(p_input) :
            /\ p_raw[i] =
                 SumOverSet(Range(p_invoked.names),
                            [m \in Range(p_invoked.names) |->
                                MulV(p_invoked.weights[m],
                                     BasePredict(p_invoked.base[m], p_input).out[i])])
            /\ p_invoked.base = TwoModels(10, 20) =>
                 /\ p_invoked.weights = [m \in {"A", "B"} |-> Half]
                       => p_raw[i] = Int2V(15)
                 /\ p_invoked.weights = [m \in {"A", "B"} |-> Int2V(1)]
                       => p_raw[i] = Int2V(30)

\* Constant models 10 and 20 under the weights 1, 1 blend to 30.
C6_Witness ==
    /\ BlendReturned
    /\ p_pc = "returned"
    /\ p_invoked.base = TwoModels(10, 20)
    /\ p_invoked.weights = [m \in {"A", "B"} |-> Int2V(1)]
    /\ p_raw = <<Int2V(30)>>

NonNegative(v) == ~IsNaN(v) /\ ~LessV(v, Int2V(0))

RecognizedKeys == <<"model", "trained_model", "clf", "regressor", "estimator">>

ExposesPredictAt(a, i) ==
    RecognizedKeys[i] \in a.keys /\ RecognizedKeys[i] \in DOMAIN a.pred

ArtifactKind(a) ==
    IF a.kind = "model" THEN "direct"
    ELSE IF a.kind = "dict" /\ {"models", "weights"} \subseteq a.keys THEN "ensemble"
    ELSE IF a.kind = "dict" /\ \E i \in 1..5 : ExposesPredictAt(a, i) THEN "keyed"
    ELSE "other"

\* The model that is active once artifact a has been loaded.
ActiveModelOf(a) ==
    CASE ArtifactKind(a) = "direct" ->
            [type |-> "Opaque", obj |-> a.obj, names |-> <<>>, base |-> <<>>,
             weights |-> <<>>]
      [] ArtifactKind(a) = "ensemble" ->
            [type |-> "EnsembleModel", obj |-> NoBase, names |-> a.names,
             base |-> a.base, weights |-> a.weights]
      [] ArtifactKind(a) = "keyed" ->
            LET i == CHOOSE j \in 1..5 :
                        /\ ExposesPredictAt(a, j)
                        /\ \A h \in 1..(j - 1) : ~ExposesPredictAt(a, h)
            IN [type |-> "Opaque", obj |-> a.pred[RecognizedKeys[i]], names |-> <<>>,
                base |-> <<>>, weights |-> <<>>]
      [] OTHER -> NoneModel

\* load_model has read the file and has returned or raised
LoadFinished == l_pc = "idle" /\ h_state \in {"Loaded", "Failed"} /\ l_obj # NoArtifact

Unloaded == ~is_loaded /\ model = NoneModel

\* C10 as claimed: (a), (b), (c) in order, and any other shape fails with
\* UnsupportedArtifactFormat reporting the top-level keys, predictor unloaded.
C10_LoadByShape ==
    LoadFinished =>
        IF ArtifactKind(l_obj) = "other"
        THEN /\ h_state = "Failed"
             /\ l_err = Err("ValueError", "keys", l_obj.keys)
             /\ Unloaded
        ELSE /\ h_state = "Loaded"
             /\ is_loaded
             /\ model = ActiveModelOf(l_obj)

\* C10 as amended: as claimed, but a bundle with an empty model collection
\* is wrapped and then fails to load (StopIteration), and an object that is
\* neither a model nor a bundle fails with its type reported, not keys.
C10_LoadByShapeAmended ==
    LoadFinished =>
        CASE ArtifactKind(l_obj) = "other" ->
                /\ h_state = "Failed"
                /\ l_err = IF l_obj.kind = "dict"
                           THEN Err("ValueError", "keys", l_obj.keys)
                           ELSE Err("ValueError", "type", {})
                /\ Unloaded
          [] ArtifactKind(l_obj) = "ensemble" /\ l_obj.names = <<>> ->
                /\ h_state = "Failed"
                /\ l_err.type = "StopIteration"
                /\ Unloaded
          [] OTHER ->
                /\ h_state = "Loaded"
                /\ is_loaded
                /\ model = ActiveModelOf(l_obj)

\* A bundle with models, weights and a model under 'model' loads as the ensemble.
C10_Witness ==
    /\ LoadFinished
    /\ h_state = "Loaded"
    /\ l_obj.keys = {"models", "weights", "model"}
    /\ "model" \in DOMAIN l_obj.pred
    /\ model.type = "EnsembleModel"
    /\ model.names = <<"A", "B">>

LifecycleTransitions ==
    { <<"Unloaded", "Loading">>, <<"Loading", "Loaded">>, <<"Loading", "Failed">>,
      <<"Loaded", "Loading">>, <<"Failed", "Loading">> }

\* C3: the predictor moves Unloaded -> Loading -> Loaded or Failed, and a
\* reload takes Loaded or Failed through Loading to Loaded or Failed.  A load
\* that succeeds leaves the new artifact active and predict is served by it;
\* one that fails leaves no model and the flag off, whatever was loaded
\* before, and predict then fails with NotLoadedError; nothing but a later
\* load changes that.
C3_Lifecycle ==
    [][ /\ h_state' # h_state => <<h_state, h_state'>> \in LifecycleTransitions
        /\ (h_state # "Loaded" /\ h_state' = "Loaded") =>
              /\ is_loaded'
              /\ model' = ActiveModelOf(l_obj')
              /\ model' # NoneModel
        /\ (h_state # "Failed" /\ h_state' = "Failed") => (~is_loaded' /\ model' = NoneModel)
        /\ (h_state' = h_state /\ h_state \in {"Loaded", "Failed"}) =>
              (model' = model /\ is_loaded' = is_loaded)
        /\ (h_state = "Loaded" /\ p_pc = "invoke" /\ p_pc' # "invoke") =>
              p_invoked' = ActiveModelOf(l_obj)
        /\ (h_state = "Failed" /\ p_pc = "check_loaded" /\ p_pc' # "check_loaded") =>
              (p_ret' = Raised(NotLoadedError) /\ p_invoked' = NoneModel)
      ]_vars

\* A reload of a loaded predictor has failed, and predict has been refused.
C3_Witness ==
    /\ h_exists
    /\ h_state = "Failed"
    /\ h_prev = "Loaded"
    /\ Unloaded
    /\ p_pc = "raised"
    /\ p_ret = Raised(NotLoadedError)

\* C5: a predict call that finds no artifact loaded fails with NotLoadedError,
\* whatever its input, and calls no model.
C5_NotLoadedError ==
    ("is_loaded" \in p_read /\ ~p_obs.is_loaded) =>
        /\ p_pc = "raised"
        /\ p_ret = Raised(NotLoadedError)
        /\ p_invoked = NoneModel
        /\ p_input = EmptyTable

\* After a failed reload, predict on an empty table is refused as not loaded.
C5_Witness ==
    /\ h_state = "Failed"
    /\ h_prev = "Loaded"
    /\ p_df = Frame(EmptyTable)
    /\ p_pc = "raised"
    /\ p_ret = Raised(NotLoadedError)

\* C4: what a predict call in flight has read of the handler (the loaded
\* flag, the model it calls, the model and ensemble metadata) is all of one
\* complete artifact, the one in force before a concurrent reload or the one
\* in force after it.
C4_PredictSeesOneArtifact ==
    p_pc # "idle" =>
        \E v \in p_versions : \A f \in p_read : p_obs[f] = v[f]

(***************************************************************************)
(* NASAPowerGEOSITClient: the validators, nasa_power_client.py lines       *)
(* 85-120.                                                                 *)
(***************************************************************************)
LatitudeInRangeExclusive(lat) == LessV(Int2V(-90), lat) /\ LessV(lat, Int2V(90))

\* `-90 <= latitude <= 90`
LatitudeInRange(lat) == LeqV(Int2V(-90), lat) /\ LeqV(lat, Int2V(90))

\* `-180 <= longitude <= 180`
LongitudeInRange(lon) == LeqV(Int2V(-180), lon) /\ LeqV(lon, Int2V(180))

\* validate_coordinates: what it returns or raises
ValidateCoordinates(lat, lon) ==
    IF ~LatitudeInRange(lat)
    THEN Raises("ValueError", "Latitude must be between -90 and 90")
    ELSE IF ~LongitudeInRange(lon)
    THEN Raises("ValueError", "Longitude must be between -180 and 180")
    ELSE ReturnsTrue

ValidateCoordinatesCall(lat, lon) ==
    /\ r_pc = "idle"
    /\ r_pc' = "done"
    /\ r_op' = "validate_coordinates"
    /\ r_args' = [latitude |-> lat, longitude |-> lon]
    /\ r_ret' = ValidateCoordinates(lat, lon)
    /\ UNCHANGED <<r_warn, r_df, fs, fetchVars, handlerVars, loadVars, predictVars>>

(***************************************************************************)
(* Dates.  A date string is a sequence of characters; a parsed date is a   *)
(* record [y, m, d]; a clock reading is a day number (ord) and whether     *)
(* the time of day is past midnight (tod, 0 or 1).                         *)
(***************************************************************************)
DigitChars == {"0", "1", "2", "3", "4", "5", "6", "7", "8", "9"}

NonZeroDigitChars == DigitChars \ {"0"}

DigitValue(c) ==
    CASE c = "0" -> 0 [] c = "1" -> 1 [] c = "2" -> 2 [] c = "3" -> 3 [] c = "4" -> 4
      [] c = "5" -> 5 [] c = "6" -> 6 [] c = "7" -> 7 [] c = "8" -> 8 [] OTHER -> 9

IsLeap(y) == (y % 4 = 0) /\ ((y % 100 # 0) \/ (y % 400 = 0))

DaysInMonth(y, m) ==
    CASE m = 2 -> (IF IsLeap(y) THEN 29 ELSE 28)
      [] m \in {4, 6, 9, 11} -> 30
      [] OTHER -> 31

RECURSIVE DaysBeforeMonth(_, _)
DaysBeforeMonth(y, m) ==
    IF m <= 1 THEN 0 ELSE DaysBeforeMonth(y, m - 1) + DaysInMonth(y, m - 1)

DaysBeforeYear(y) == (y - 1) * 365 + ((y - 1) \div 4) - ((y - 1) \div 100) + ((y - 1) \div 400)

\* date.toordinal()
ToOrdinal(dt) == DaysBeforeYear(dt.y) + DaysBeforeMonth(dt.y, dt.m) + dt.d

YMD(y, m, d) == [y |-> y, m |-> m, d |-> d]

NoDate == YMD(0, 0, 0)

\* The length of the text the directive %m takes at position p, for each
\* alternative of its pattern 1[0-2]|0[1-9]|[1-9] that matches there, in the
\* order the pattern tries them.
MonthLens(s, p) ==
    (IF /\ Len(s) >= p + 1
        /\ \/ (s[p] = "1" /\ s[p + 1] \in {"0", "1", "2"})
           \/ (s[p] = "0" /\ s[p + 1] \in NonZeroDigitChars)
     THEN <<2>> ELSE <<>>)
    \o (IF Len(s) >= p /\ s[p] \in NonZeroDigitChars THEN <<1>> ELSE <<>>)

\* The length of the text %d takes at position p: the first alternative of
\* 3[0-1]|[1-2]\d|0[1-9]|[1-9]| [1-9] that matches there, 0 when none does.
DayLen(s, p) ==
    IF /\ Len(s) >= p + 1
       /\ \/ (s[p] = "3" /\ s[p + 1] \in {"0", "1"})
          \/ (s[p] \in {"1", "2"} /\ s[p + 1] \in DigitChars)
          \/ (s[p] = "0" /\ s[p + 1] \in NonZeroDigitChars)
    THEN 2
    ELSE IF Len(s) >= p /\ s[p] \in NonZeroDigitChars THEN 1
    ELSE IF Len(s) >= p + 1 /\ s[p] = " " /\ s[p + 1] \in NonZeroDigitChars THEN 2
    ELSE 0

\* int() of the text from p of length n; a leading blank counts for nothing
RECURSIVE IntOf(_, _, _)
IntOf(s, p, n) ==
    IF n = 0 THEN 0
    ELSE IntOf(s, p, n - 1) * 10 + (IF s[p + n - 1] = " " THEN 0 ELSE DigitValue(s[p + n - 1]))

Parsed(dt) == [ok |-> TRUE, err |-> "none", date |-> dt]
ParseError(err) == [ok |-> FALSE, err |-> err, date |-> NoDate]

\* datetime.strptime(s, fmt) for fmt = "%Y%m%d" (sep = 0) and "%Y-%m-%d"
\* (sep = 1): the pattern is matched from the left, an alternative is given
\* up only when what follows cannot match, text left over after the match is
\* an error, and so is a day the month does not have.
StrptimeWith(s, sep) ==
    IF ~(Len(s) >= 4 /\ \A i \in 1..4 : s[i] \in DigitChars)
    THEN ParseError("ValueError: does not match format")
    ELSE IF sep = 1 /\ ~(Len(s) >= 5 /\ s[5] = "-")
    THEN ParseError("ValueError: does not match format")
    ELSE LET mp == 5 + sep
             lens == MonthLens(s, mp)
             fits == {i \in 1..Len(lens) :
                        /\ sep = 1 => (Len(s) >= mp + lens[i] /\ s[mp + lens[i]] = "-")
                        /\ DayLen(s, mp + lens[i] + sep) > 0} IN
         IF fits = {}
         THEN ParseError("ValueError: does not match format")
         ELSE LET i == CHOOSE j \in fits : \A k \in fits : j <= k
                  ml == lens[i]
                  dp == mp + ml + sep
                  dl == DayLen(s, dp)
                  y == IntOf(s, 1, 4)
                  m == IntOf(s, mp, ml)
                  d == IntOf(s, dp, dl) IN
              IF dp + dl - 1 # Len(s)
              THEN ParseError("ValueError: unconverted data remains")
              ELSE IF y < 1
              THEN ParseError("ValueError: year is out of range")
              ELSE IF d > DaysInMonth(y, m)
              THEN ParseError("ValueError: day is out of range for month")
              ELSE Parsed(YMD(y, m, d))

\* datetime.strptime(s, "%Y%m%d")
Strptime(s) == StrptimeWith(s, 0)

\* datetime comparison and subtraction, on (day number, time of day)
Midnight(dt) == [ord |-> ToOrdinal(dt), tod |-> 0]

Before(a, b) == a.ord < b.ord \/ (a.ord = b.ord /\ a.tod < b.tod)

MinusDays(t, n) == [ord |-> t.ord - n, tod |-> t.tod]

\* (a - b).days for b at midnight: timedelta normalises days to the floor
DaysBetween(a, b) == a.ord - b.ord

\* self.min_date = datetime(2020, 1, 1)
min_date == Midnight(YMD(2020, 1, 1))

\* self.max_date = datetime.now() - timedelta(days=3)
max_date(now) == MinusDays(now, 3)

\* `if start < self.min_date`
BeforeMinDate(start) == Before(start, min_date)

\* validate_dates: what it returns or raises
ValidateDates(start_date, end_date, now) ==
    LET ps == Strptime(start_date)
        pe == Strptime(end_date) IN
    IF ~ps.ok \/ ~pe.ok
    THEN Raises("ValueError", "Dates must be in YYYYMMDD format")
    ELSE LET start == Midnight(ps.date)
             end == Midnight(pe.date) IN
         IF Before(end, start)
         THEN Raises("ValueError", "Start date must be before end date")
         ELSE IF BeforeMinDate(start)
         THEN Raises("ValueError", "GEOS-IT data starts from 2020-01-01")
         ELSE ReturnsTrue

\* validate_dates: the warnings it emits on its way to `return True`
DateWarnings(end_date, now) ==
    LET end == Midnight(Strptime(end_date).date) IN
    (IF Before(max_date(now), end) THEN {"after max_date"} ELSE {})
    \cup (IF DaysBetween(now, end) < 3 THEN {"recent data"} ELSE {})

ValidateDatesCall(start_date, end_date, now) ==
    /\ r_pc = "idle"
    /\ r_pc' = "done"
    /\ r_op' = "validate_dates"
    /\ r_args' = [start_date |-> start_date, end_date |-> end_date, now |-> now]
    /\ r_ret' = ValidateDates(start_date, end_date, now)
    /\ r_warn' = IF ValidateDates(start_date, end_date, now).kind = "return"
                 THEN DateWarnings(end_date, now) ELSE {}
    /\ UNCHANGED <<r_df, fs, fetchVars, handlerVars, loadVars, predictVars>>

(***************************************************************************)
(* parse_to_dataframe, nasa_power_client.py lines 231-276.  The provider's *)
(* response is a dict (kind "dict") or, when fetch_data fell off its end,  *)
(* None.  shape tells whether api_response['properties']['parameter'] is   *)
(* there; parameter maps each parameter name to its series, the entries    *)
(* [key, value] of a JSON object in the order they arrive.                 *)
(***************************************************************************)
Response(shape, parameter) == [kind |-> "dict", shape |-> shape, parameter |-> parameter]

NoneResponse == [kind |-> "None", shape |-> "none", parameter |-> <<>>]

\* NASA POWER's fill value
FillValue == Int2V(-999)

ParamOrder == <<"T2M", "WS2M">>

SeriesKeys(series) == [i \in 1..Len(series) |-> series[i].key]

RECURSIVE AppendNew(_, _)
AppendNew(seq, keys) ==
    IF keys = <<>> THEN seq
    ELSE AppendNew(IF Head(keys) \in Range(seq) THEN seq ELSE Append(seq, Head(keys)),
                   Tail(keys))

\* The index of pd.DataFrame(parameters): the keys of all the series.
RECURSIVE UnionKeys(_, _)
UnionKeys(parameter, i) ==
    IF i = 0 THEN <<>>
    ELSE LET before == UnionKeys(parameter, i - 1) IN
         IF ParamOrder[i] \in DOMAIN parameter
         THEN AppendNew(before, SeriesKeys(parameter[ParamOrder[i]]))
         ELSE before

\* One cell of pd.DataFrame(parameters): NaN where the series has no such key.
Lookup(series, key) ==
    IF \E i \in 1..Len(series) : series[i].key = key
    THEN series[CHOOSE i \in 1..Len(series) : series[i].key = key].value
    ELSE NaN

\* df.replace(-999.0, np.nan), one cell
ReplaceFill(v) == IF v = FillValue THEN NaN ELSE v

\* A row goes behind the rows that are not later than it.
RECURSIVE InsertRow(_, _)
InsertRow(sorted, row) ==
    IF sorted = <<>> THEN <<row>>
    ELSE IF ToOrdinal(row.date) < ToOrdinal(Head(sorted).date)
    THEN <<row>> \o sorted
    ELSE <<Head(sorted)>> \o InsertRow(Tail(sorted), row)

RECURSIVE InsertAll(_, _)
InsertAll(sorted, rows) ==
    IF rows = <<>> THEN sorted ELSE InsertAll(InsertRow(sorted, Head(rows)), Tail(rows))

SortIndexKeepOrder(rows) == rows

\* df.sort_index()
SortIndex(rows) == InsertAll(<<>>, rows)

ReturnsTable(index, t) ==
    [kind |-> "return", exc |-> "none", msg |-> "none", index |-> index, t |-> t]

\* parse_to_dataframe: the table it returns or what it raises.  The recency
\* lines 267-270 take the latest date of the index, which is NaT for a table
\* without rows; whether NaT goes through the date subtraction or raises
\* TypeError is left to the pandas build (nat).
ParseToDataframe(resp, nat) ==
    IF resp.kind = "None"
    THEN Raises("TypeError", "'NoneType' object is not subscriptable")
    ELSE IF resp.shape # "ok"
    THEN Raises("Exception", "Error parsing API response")
    ELSE LET keys == UnionKeys(resp.parameter, Len(ParamOrder))
             rows == [i \in 1..Len(keys) |->
                        [date |-> Strptime(keys[i]).date,
                         cells |-> [c \in DOMAIN resp.parameter |->
                                      ReplaceFill(Lookup(resp.parameter[c], keys[i]))]]]
             sorted == SortIndex(rows) IN
         IF \E i \in 1..Len(keys) : ~Strptime(keys[i]).ok
         THEN Raises("ValueError", "time data does not match format")
         ELSE IF sorted = <<>> /\ nat = "raises"
         THEN Raises("TypeError", "unsupported operand type(s) for -")
         ELSE ReturnsTable([i \in 1..Len(sorted) |-> sorted[i].date],
                           [c \in DOMAIN resp.parameter |->
                              [i \in 1..Len(sorted) |-> sorted[i].cells[c]]])

NaTArithmetic == {"passes", "raises"}

ParseCall(resp, nat) ==
    /\ r_pc = "idle"
    /\ r_pc' = "done"
    /\ r_op' = "parse_to_dataframe"
    /\ r_args' = [api_response |-> resp, nat |-> nat]
    /\ r_ret' = ParseToDataframe(resp, nat)
    /\ UNCHANGED <<r_warn, r_df, fs, fetchVars, handlerVars, loadVars, predictVars>>

(***************************************************************************)
(* validate_geos_it_availability, nasa_power_client.py lines 412-451, and  *)
(* its caller validate_location_availability, scrape_nasa_data csv.py      *)
(* lines 69-99.                                                            *)
(***************************************************************************)
\* date.fromordinal, for the years the model's clocks are in
FromOrdinal(n) ==
    LET y == CHOOSE yy \in 2019..2025 : DaysBeforeYear(yy) < n /\ n <= DaysBeforeYear(yy + 1)
        inYear == n - DaysBeforeYear(y)
        m == CHOOSE mm \in 1..12 :
                /\ DaysBeforeMonth(y, mm) < inYear
                /\ inYear <= DaysBeforeMonth(y, mm) + DaysInMonth(y, mm) IN
    YMD(y, m, inYear - DaysBeforeMonth(y, m))

DigitChar(i) ==
    CASE i = 0 -> "0" [] i = 1 -> "1" [] i = 2 -> "2" [] i = 3 -> "3" [] i = 4 -> "4"
      [] i = 5 -> "5" [] i = 6 -> "6" [] i = 7 -> "7" [] i = 8 -> "8" [] OTHER -> "9"

\* strftime('%Y%m%d')
Strftime(dt) ==
    << DigitChar(dt.y \div 1000), DigitChar((dt.y \div 100) % 10),
       DigitChar((dt.y \div 10) % 10), DigitChar(dt.y % 10),
       DigitChar(dt.m \div 10), DigitChar(dt.m % 10),
       DigitChar(dt.d \div 10), DigitChar(dt.d % 10) >>

\* lines 419-420
TestStart(now) == Strftime(FromOrdinal(MinusDays(now, 10).ord))
TestEnd(now) == Strftime(FromOrdinal(MinusDays(now, 5).ord))

ValidateRequestCoordinatesOnly(lat, lon, start_date, end_date, now) ==
    ValidateCoordinates(lat, lon)

\* build_request_url, lines 133-134: the two validators, in this order
ValidateRequest(lat, lon, start_date, end_date, now) ==
    IF ValidateCoordinates(lat, lon).kind = "raise"
    THEN ValidateCoordinates(lat, lon)
    ELSE ValidateDates(start_date, end_date, now)

\* fetch_data's defaults
DefaultMaxRetries == 3
DefaultRetryDelay == 1

\* What fetch_data raised, as the exception its caller sees.
FetchRaised(ret) ==
    IF ret.kind \in {"ProviderError", "DataSourceUnavailable"}
    THEN Raises("Exception", ret.kind)
    ELSE NoResponse

\* The first of the three steps of the probe that raised, or NoResponse.
ProbeRaisedFetchOnly(v, f, prs) == IF v.kind = "raise" THEN v ELSE FetchRaised(f)

\* What leaves the try block of lines 425-439 as an exception: the validators'
\* (inside fetch_data), fetch_data's or parse_to_dataframe's.
ProbeRaised(v, f, prs) ==
    IF v.kind = "raise" THEN v
    ELSE IF FetchRaised(f).kind = "raise" THEN FetchRaised(f)
    ELSE IF prs.kind = "raise" THEN prs
    ELSE NoResponse

HasNull(t) == \E c \in DOMAIN t : \E i \in 1..Len(t[c]) : IsNaN(t[c][i])

\* df.index.max().date(), NaT for a table without rows
LatestDate(prs) ==
    IF prs.kind = "return" /\ prs.index # <<>> THEN prs.index[Len(prs.index)] ELSE NoDate

\* line 437
DataQuality(prs) ==
    IF prs.kind = "return" /\ HasNull(prs.t) THEN "Some missing values" ELSE "Good"

Report(available, message, latest_date, data_quality) ==
    [kind |-> "return", exc |-> "none", msg |-> "none", available |-> available,
     message |-> message, latest_date |-> latest_date, data_quality |-> data_quality]

\* The report of validate_geos_it_availability, as validate_location_availability
\* hands it on (lines 86-91); every exception is an Exception and is caught
\* at line 441.
AvailabilityReport(v, f, prs) ==
    IF ProbeRaised(v, f, prs).kind = "raise"
    THEN Report(FALSE, "GEOS-IT data not available: " \o ProbeRaised(v, f, prs).msg,
                NoDate, "N/A")
    ELSE Report(TRUE, "GEOS-IT data available", LatestDate(prs), DataQuality(prs))

\* validate_location_availability is called: the probe dates are made from the
\* clock and fetch_data validates the request before it sends anything.
AvailabilityCall(lat, lon, now, nat) ==
    /\ r_pc = "idle"
    /\ r_op' = "validate_location_availability"
    /\ r_args' = [latitude |-> lat, longitude |-> lon, now |-> now, nat |-> nat,
                  api_response |-> NoneResponse]
    /\ LET v == ValidateRequest(lat, lon, TestStart(now), TestEnd(now), now) IN
       IF v.kind = "raise"
       THEN /\ r_pc' = "done"
            /\ r_ret' = AvailabilityReport(v, NoReturn, NoResponse)
       ELSE /\ r_pc' = "fetching"
            /\ r_ret' = NoResponse
    /\ UNCHANGED <<r_warn, r_df, fs, fetchVars, handlerVars, loadVars, predictVars>>

\* fetch_data goes into its loop with the defaults.
ProbeFetch ==
    /\ r_pc = "fetching"
    /\ FetchCall(DefaultMaxRetries, DefaultRetryDelay)

\* fetch_data is over: resp is the body it returned, None if it fell off its
\* end; the response is parsed and the report made.
AvailabilityFinish(resp) ==
    /\ r_pc = "fetching"
    /\ r_op = "validate_location_availability"
    /\ f_pc \in {"returned", "raised"}
    /\ f_ret.kind = "data" => resp.kind = "dict"
    /\ f_ret.kind # "data" => resp = NoneResponse
    /\ r_pc' = "done"
    /\ r_args' = [r_args EXCEPT !.api_response = resp]
    /\ r_ret' = AvailabilityReport(ReturnsTrue, f_ret, ParseToDataframe(resp, r_args.nat))
    /\ UNCHANGED <<r_op, r_warn, r_df, fs, fetchVars, handlerVars, loadVars, predictVars>>

(***************************************************************************)
(* The client's functions called one at a time, on inputs drawn from the   *)
(* values below.                                                           *)
(***************************************************************************)
LatValues ==
    {NaN, NInf, PInf, Int2V(-91), Int2V(-90), Int2V(0), Int2V(90), Fin(181, 2), Int2V(91)}

LonValues ==
    {NaN, PInf, Int2V(-181), Int2V(-180), Int2V(0), Int2V(180), Int2V(181)}

DateStrings ==
    { <<"2", "0", "2", "3", "0", "6", "1", "0">>,
      <<"2", "0", "2", "3", "0", "6", "1", "3">>,
      <<"2", "0", "2", "3", "0", "6", "2", "0">>,
      <<"2", "0", "1", "9", "1", "2", "3", "1">>,
      <<"2", "0", "2", "0", "0", "1", "0", "1">>,
      <<"2", "0", "2", "3", "6", "1", "5">>,
      <<"2", "0", "2", "3", "0", "6", "1">>,
      <<"2", "0", "2", "3", "0", "6", " ", "5">>,
      <<"2", "0", "2", "3", "-", "0", "6", "-", "1", "0">>,
      <<"2", "0", "2", "3", "1", "3", "0", "1">>,
      <<"2", "0", "2", "3", "0", "2", "3", "0">>,
      <<>> }

MaxDays == 3

\* The days a daily response can hold, as the provider writes them.
ProviderDays ==
    << <<"2", "0", "2", "3", "0", "6", "1", "0">>,
       <<"2", "0", "2", "3", "0", "6", "0", "9">>,
       <<"2", "0", "2", "3", "0", "7", "0", "1">>,
       <<"2", "0", "2", "2", "1", "2", "3", "1">>,
       <<"2", "0", "2", "4", "0", "2", "2", "9">> >>

ProviderKeys == {ProviderDays[i] : i \in 1..MaxDays}

\* Every series over the keys ks with values from vs: a JSON object has no
\* key twice, and its entries come in any order.
SeriesOver(ks, vs) ==
    UNION { {sr \in [1..n -> [key : ks, value : vs]] :
                \A i, j \in 1..n : sr[i].key = sr[j].key => i = j} :
            n \in 0..Cardinality(ks) }

ParameterDicts ==
    { [c \in {"T2M"} |-> sr] : sr \in SeriesOver(ProviderKeys, {FillValue, Int2V(5)}) }
    \cup { [c \in Columns |-> IF c = "T2M" THEN sr ELSE w] :
             sr \in SeriesOver(ProviderKeys, {FillValue, Int2V(5)}),
             w \in { <<[key |-> ProviderDays[1], value |-> FillValue]>>,
                     <<[key |-> ProviderDays[2], value |-> Int2V(7)]>> } }
    \cup { <<>> }

Responses ==
    {Response("ok", pd) : pd \in ParameterDicts}
    \cup {Response("no properties", <<>>), Response("no parameter", <<>>), NoneResponse}

\* What the probe of the availability check can get back.
ProbeResponses ==
    { Response("ok", [c \in {"T2M"} |->
                        <<[key |-> ProviderDays[1], value |-> Int2V(5)],
                          [key |-> ProviderDays[2], value |-> Int2V(5)]>>]),
      Response("ok", [c \in {"T2M"} |-> <<[key |-> ProviderDays[1], value |-> FillValue]>>]),
      Response("ok", <<>>),
      Response("no properties", <<>>),
      Response("no parameter", <<>>),
      NoneResponse }

ProbeLocations ==
    { <<Int2V(0), Int2V(0)>>, <<Int2V(91), Int2V(0)>>, <<Int2V(90), Int2V(181)>>,
      <<NaN, Int2V(0)>> }

\* datetime.now()
Clocks == {[ord |-> ToOrdinal(YMD(2023, 6, 15)), tod |-> t] : t \in {0, 1}}

InitClient == FetchIdle /\ NoHandler /\ PredictIdle /\ ReqIdle /\ file = MissingFile

NextClient ==
    \/ (r_pc = "idle" /\ \E lat \in LatValues, lon \in LonValues :
            ValidateCoordinatesCall(lat, lon))
    \/ (r_pc = "idle" /\ \E sd \in DateStrings, ed \in DateStrings, now \in Clocks :
            ValidateDatesCall(sd, ed, now))
    \/ (r_pc = "idle" /\ \E resp \in Responses, nat \in NaTArithmetic : ParseCall(resp, nat))
    \/ (r_pc = "idle" /\ \E loc \in ProbeLocations, now \in Clocks, nat \in NaTArithmetic :
            AvailabilityCall(loc[1], loc[2], now, nat))
    \/ ProbeFetch
    \/ \E o \in Outcomes : FetchAttempt(o)
    \/ (r_pc = "fetching" /\ f_pc \in {"returned", "raised"}
            /\ \E resp \in ProbeResponses : AvailabilityFinish(resp))
    \/ RequestReturn

SpecClient == InitClient /\ [][NextClient]_vars

(***************************************************************************)
(* Claims about the client's validators.                                   *)
(***************************************************************************)
InsideClosed(v, lo, hi) == IsFinite(v) /\ lo * v.d <= v.n /\ v.n <= hi * v.d

ValidationError(ret) == ret.kind = "raise" /\ ret.exc = "ValueError"

\* C11: validate_coordinates succeeds for every pair with lat in [-90, 90] and
\* lon in [-180, 180], the bounds included, and raises the validation error
\* (ValueError) for every other pair.
C11_CoordinatesAccepted ==
    (r_op = "validate_coordinates" /\ r_pc = "done") =>
        IF InsideClosed(r_args.latitude, -90, 90) /\ InsideClosed(r_args.longitude, -180, 180)
        THEN r_ret.kind = "return"
        ELSE ValidationError(r_ret)

C11_Witness ==
    /\ r_op = "validate_coordinates" /\ r_pc = "done"
    /\ r_args.latitude = Int2V(90)
    /\ r_args.longitude = Int2V(-180)
    /\ r_ret.kind = "return"

\* The fixed format: eight digits that name a day of the calendar.
FixedFormat(s) ==
    IF Len(s) = 8 /\ \A i \in 1..8 : s[i] \in DigitChars
    THEN LET y == IntOf(s, 1, 4)
             m == IntOf(s, 5, 2)
             d == IntOf(s, 7, 2) IN
         IF y >= 1 /\ m \in 1..12 /\ d \in 1..DaysInMonth(y, m)
         THEN Parsed(YMD(y, m, d))
         ELSE ParseError("ValueError")
    ELSE ParseError("ValueError")

\* C12: validate_dates raises the validation error when a date is not in the
\* fixed 8-digit format, when start > end, or when start is before
\* 2020-01-01; otherwise it succeeds, also when start = end and when end is
\* within the reporting delay or after the available maximum, which only warn.
C12_DateRangeValidation ==
    (r_op = "validate_dates" /\ r_pc = "done") =>
        LET fs_ == FixedFormat(r_args.start_date)
            fe_ == FixedFormat(r_args.end_date) IN
        IF ~fs_.ok \/ ~fe_.ok
        THEN ValidationError(r_ret)
        ELSE IF ToOrdinal(fs_.date) > ToOrdinal(fe_.date)
        THEN ValidationError(r_ret)
        ELSE IF ToOrdinal(fs_.date) < ToOrdinal(YMD(2020, 1, 1))
        THEN ValidationError(r_ret)
        ELSE r_ret.kind = "return"

(***************************************************************************)
(* Claims about parse_to_dataframe.                                        *)
(***************************************************************************)
ParseReturned == r_op = "parse_to_dataframe" /\ r_pc = "done" /\ r_ret.kind = "return"

RowsOf(day) == {i \in 1..Len(r_ret.index) : r_ret.index[i] = FixedFormat(day).date}

\* C13: in the table parse_to_dataframe returns, every value the response
\* holds sits in the row of its date, -999 turned into NaN and any other value
\* as it came, each date has one row, and the rows ascend strictly by date,
\* whatever order the response came in.
C13_ParsedTable ==
    ParseReturned =>
        LET pd == r_args.api_response.parameter IN
        /\ \A c \in DOMAIN pd : \A k \in 1..Len(pd[c]) :
              /\ Cardinality(RowsOf(pd[c][k].key)) = 1
              /\ \A i \in RowsOf(pd[c][k].key) :
                    r_ret.t[c][i] = IF pd[c][k].value = Int2V(-999) THEN NaN
                                    ELSE pd[c][k].value
        /\ \A i, j \in 1..Len(r_ret.index) :
              i < j => ToOrdinal(r_ret.index[i]) < ToOrdinal(r_ret.index[j])

\* A response whose days arrive latest first, one of them holding the fill value.
C13_Witness ==
    /\ ParseReturned
    /\ Len(r_ret.index) = 3
    /\ LET sr == r_args.api_response.parameter["T2M"] IN
       /\ Len(sr) = 3
       /\ ToOrdinal(FixedFormat(sr[1].key).date) > ToOrdinal(FixedFormat(sr[2].key).date)
       /\ ToOrdinal(FixedFormat(sr[2].key).date) > ToOrdinal(FixedFormat(sr[3].key).date)
       /\ sr[1].value = Int2V(-999)
       /\ r_ret.t["T2M"][3] = NaN

(***************************************************************************)
(* Claims about the availability check.                                    *)
(***************************************************************************)
AvailabilityDone == r_op = "validate_location_availability" /\ r_pc = "done"

\* The probe was validated, fetched and parsed.
ProbeParsed ==
    /\ ValidateRequest(r_args.latitude, r_args.longitude, TestStart(r_args.now),
                       TestEnd(r_args.now), r_args.now).kind = "return"
    /\ f_ret.kind = "data"
    /\ ParseToDataframe(r_args.api_response, r_args.nat).kind = "return"

\* C14: validate_location_availability raises nothing: for every location and
\* every outcome of the probe's fetch and parse it returns a report; when the
\* probe failed the report has available = False and a message, and available
\* = True is reported only when the probe was fetched and parsed.
C14_AvailabilityNeverRaises ==
    AvailabilityDone =>
        /\ r_ret.kind = "return"
        /\ ~ProbeParsed => (r_ret.available = FALSE /\ r_ret.message # "")
        /\ r_ret.available = TRUE => ProbeParsed

\* The transport failed on all three attempts.
C14_Witness ==
    /\ AvailabilityDone
    /\ f_ret.kind = "DataSourceUnavailable"
    /\ Len(f_hist) = 3
    /\ r_ret.available = FALSE

(***************************************************************************)
(* calculate_financial_savings and get_prediction_summary,                 *)
(* model_handler.py lines 226-249.  The predictions handed in are a numpy  *)
(* array (kind "ndarray"), a Python list (kind "list") or one number       *)
(* (kind "scalar"); the rate is a float or an int.                         *)
(***************************************************************************)
Batch(kind, vals) == [kind |-> kind, vals |-> vals]

Rate(v, isint) == [v |-> v, isint |-> isint]

\* mad_per_kwh=1.2
DefaultRate == Rate(Fin(6, 5), FALSE)

SubV(a, b) == AddV(a, MulV(Int2V(-1), b))

\* np.min / np.max: a NaN anywhere makes the result NaN
RECURSIVE MinSeq(_)
MinSeq(vs) ==
    IF Len(vs) = 1 THEN vs[1]
    ELSE LET rest == MinSeq(Tail(vs)) IN
         IF IsNaN(vs[1]) \/ IsNaN(rest) THEN NaN
         ELSE IF LessV(vs[1], rest) THEN vs[1] ELSE rest

RECURSIVE MaxSeq(_)
MaxSeq(vs) ==
    IF Len(vs) = 1 THEN vs[1]
    ELSE LET rest == MaxSeq(Tail(vs)) IN
         IF IsNaN(vs[1]) \/ IsNaN(rest) THEN NaN
         ELSE IF LessV(rest, vs[1]) THEN vs[1] ELSE rest

\* ndarray.mean()
MeanSeq(vs) == DivByCount(SumSeq(vs), Len(vs))

\* ndarray.std() is the square root of this: the mean squared distance from
\* the mean, divided by the count (ddof=0).
Variance(vs) ==
    LET m == MeanSeq(vs) IN
    MeanSeq([i \in 1..Len(vs) |-> MulV(SubV(vs[i], m), SubV(vs[i], m))])

Sqrt(v) == [sqrt_of |-> v]

\* list * int
RECURSIVE Repeat(_, _)
Repeat(vals, n) == IF n <= 0 THEN <<>> ELSE vals \o Repeat(vals, n - 1)

\* ndarray * rate
Scaled(vals, rate) == [i \in 1..Len(vals) |-> MulV(vals[i], rate.v)]

ReturnsBatch(b) == [kind |-> "return", exc |-> "none", msg |-> "none", out |-> b]

\* predictions_kwh * mad_per_kwh for a list (line 230): Python repeats a list
\* an int number of times and refuses any other factor.
ListTimesRate(vals, rate) ==
    IF rate.isint
    THEN ReturnsBatch(Batch("list", Repeat(vals, rate.v.n)))
    ELSE Raises("TypeError", "can't multiply sequence by non-int of type 'float'")

\* calculate_financial_savings
CalculateFinancialSavings(predictions_kwh, mad_per_kwh) ==
    IF predictions_kwh.kind = "list"
    THEN ListTimesRate(predictions_kwh.vals, mad_per_kwh)
    ELSE ReturnsBatch(Batch("ndarray", Scaled(predictions_kwh.vals, mad_per_kwh)))

ReturnsSummary(sm) == [kind |-> "return", exc |-> "none", msg |-> "none", summary |-> sm]

\* get_prediction_summary: np.array(...) makes an array of a list, so the
\* savings are taken elementwise here; len() of the 0-d array made of one
\* number raises, and so does min() of an array without elements.
GetPredictionSummary(predictions_kwh, mad_per_kwh) ==
    LET arr == predictions_kwh.vals
        savings_mad == Scaled(arr, mad_per_kwh) IN
    IF predictions_kwh.kind = "scalar"
    THEN Raises("TypeError", "len() of unsized object")
    ELSE IF arr = <<>>
    THEN Raises("ValueError", "zero-size array to reduction operation minimum")
    ELSE ReturnsSummary(
            [total_days |-> Len(arr),
             total_production_kwh |-> SumSeq(arr),
             total_savings_mad |-> SumSeq(savings_mad),
             avg_daily_production_kwh |-> MeanSeq(arr),
             avg_daily_savings_mad |-> MeanSeq(savings_mad),
             min_daily_production_kwh |-> MinSeq(arr),
             max_daily_production_kwh |-> MaxSeq(arr),
             std_daily_production_kwh |-> Sqrt(Variance(arr)),
             conversion_rate_mad_per_kwh |-> mad_per_kwh.v])

SavingsCall(predictions_kwh, mad_per_kwh) ==
    /\ r_pc = "idle"
    /\ r_pc' = "done"
    /\ r_op' = "calculate_financial_savings"
    /\ r_args' = [predictions_kwh |-> predictions_kwh, mad_per_kwh |-> mad_per_kwh]
    /\ r_ret' = CalculateFinancialSavings(predictions_kwh, mad_per_kwh)
    /\ UNCHANGED <<r_warn, r_df, fs, fetchVars, handlerVars, loadVars, predictVars>>

SummaryCall(predictions_kwh, mad_per_kwh) ==
    /\ r_pc = "idle"
    /\ r_pc' = "done"
    /\ r_op' = "get_prediction_summary"
    /\ r_args' = [predictions_kwh |-> predictions_kwh, mad_per_kwh |-> mad_per_kwh]
    /\ r_ret' = GetPredictionSummary(predictions_kwh, mad_per_kwh)
    /\ UNCHANGED <<r_warn, r_df, fs, fetchVars, handlerVars, loadVars, predictVars>>

\* ---- the two functions called on batches of up to MaxRows predictions
PredictionValues == {Int2V(0), Int2V(5), Fin(21, 2)}

Batches ==
    { Batch(kd, vals) : kd \in {"ndarray", "list"},
                       vals \in UNION {[1..n -> PredictionValues] : n \in 0..MaxRows} }
    \cup { Batch("scalar", <<v>>) : v \in PredictionValues }

Rates == {DefaultRate, Rate(Int2V(2), TRUE)}

InitSummary == FetchIdle /\ NoHandler /\ PredictIdle /\ ReqIdle /\ file = MissingFile

NextSummary ==
    \/ (r_pc = "idle" /\ \E b \in Batches, rt \in Rates : SavingsCall(b, rt))
    \/ (r_pc = "idle" /\ \E b \in Batches, rt \in Rates : SummaryCall(b, rt))
    \/ RequestReturn

SpecSummary == InitSummary /\ [][NextSummary]_vars

(***************************************************************************)
(* Claims about the savings and the summary.                               *)
(***************************************************************************)
\* Exact arithmetic on the finite values of a batch.
RECURSIVE Total(_)
Total(vs) == IF vs = <<>> THEN Int2V(0) ELSE AddV(Head(vs), Total(Tail(vs)))

Least(vs) == CHOOSE v \in Range(vs) : \A w \in Range(vs) : ~LessV(w, v)

Greatest(vs) == CHOOSE v \in Range(vs) : \A w \in Range(vs) : ~LessV(v, w)

Average(vs) == DivByCount(Total(vs), Len(vs))

PopulationVariance(vs) ==
    Average([i \in 1..Len(vs) |->
               MulV(AddV(vs[i], MulV(Int2V(-1), Average(vs))),
                    AddV(vs[i], MulV(Int2V(-1), Average(vs))))])

\* C17: calculate_financial_savings returns, for a sequence of predictions, a
\* sequence of the same length whose i-th element is predictions[i] x rate;
\* get_prediction_summary of a batch that is not empty returns its count, sum,
\* mean, min, max and population standard deviation, the total savings = rate
\* x total production, the average savings = rate x average production, and
\* the rate, none of them rounded.
C17_SavingsAndSummary ==
    /\ (r_op = "calculate_financial_savings" /\ r_pc = "done"
            /\ r_args.predictions_kwh.kind \in {"ndarray", "list"}) =>
          LET vals == r_args.predictions_kwh.vals IN
          /\ r_ret.kind = "return"
          /\ Len(r_ret.out.vals) = Len(vals)
          /\ \A i \in 1..Len(vals) :
                r_ret.out.vals[i] = MulV(vals[i], r_args.mad_per_kwh.v)
    /\ (r_op = "get_prediction_summary" /\ r_pc = "done"
            /\ r_args.predictions_kwh.kind \in {"ndarray", "list"}
            /\ r_args.predictions_kwh.vals # <<>>) =>
          LET vals == r_args.predictions_kwh.vals
              rt == r_args.mad_per_kwh.v IN
          /\ r_ret.kind = "return"
          /\ r_ret.summary.total_days = Len(vals)
          /\ r_ret.summary.total_production_kwh = Total(vals)
          /\ r_ret.summary.avg_daily_production_kwh = Average(vals)
          /\ r_ret.summary.min_daily_production_kwh = Least(vals)
          /\ r_ret.summary.max_daily_production_kwh = Greatest(vals)
          /\ r_ret.summary.std_daily_production_kwh = [sqrt_of |-> PopulationVariance(vals)]
          /\ r_ret.summary.total_savings_mad = MulV(rt, Total(vals))
          /\ r_ret.summary.avg_daily_savings_mad = MulV(rt, Average(vals))
          /\ r_ret.summary.conversion_rate_mad_per_kwh = rt

(***************************************************************************)
(* validate_model_health, model_handler.py lines 266-313, as the /health   *)
(* endpoint calls it (app.py line 218).                                    *)
(***************************************************************************)

ProbeColumns == {"ALLSKY_SFC_SW_DWN", "T2M", "CLOUD_AMT", "WS2M", "RH2M"}

\* the cell of each column of test_data (lines 278-284)
ProbeCell(c) ==
    CASE c = "ALLSKY_SFC_SW_DWN" -> Fin(41, 2)
      [] c = "T2M" -> Int2V(25)
      [] c = "CLOUD_AMT" -> Int2V(30)
      [] c = "WS2M" -> Fin(7, 2)
      [] c = "RH2M" -> Int2V(60)
      [] OTHER -> Int2V(1)

\* f'dummy_feature_{len(test_data.columns)}', a name per column count
DummyFeature(n) == <<"dummy_feature", n>>

\* lines 278-290: the five named columns, and one dummy column more for as
\* long as the table has fewer columns than model_info['feature_count']
TestData(info) ==
    LET width == Cardinality(ProbeColumns)
        dummies == IF info.set /\ info.feature_count # 0
                   THEN {DummyFeature(n) : n \in width..(info.feature_count - 1)}
                   ELSE {} IN
    [c \in ProbeColumns \cup dummies |-> <<ProbeCell(c)>>]

Unhealthy(error) ==
    [kind |-> "return", exc |-> "none", msg |-> "none",
     healthy |-> FALSE, error |-> error, test_prediction |-> NaN]

Healthy(v) ==
    [kind |-> "return", exc |-> "none", msg |-> "none",
     healthy |-> TRUE, error |-> "", test_prediction |-> v]

\* `len(test_prediction) == 1 and not np.isnan(test_prediction[0])`
PredictionUsable(out) == Len(out) = 1 /\ ~IsNaN(out[1])

\* app.py line 218 and lines 267-271: the answers given without a probe
HealthCall ==
    /\ r_pc = "idle"
    /\ r_op' = "validate_model_health"
    /\ r_args' = NoArgs
    /\ r_warn' = {}
    /\ r_df' = EmptyTable
    /\ IF ~h_exists
       THEN r_pc' = "done" /\ r_ret' = Unhealthy("Handler not initialized")
       ELSE IF NotLoaded(is_loaded)
       THEN r_pc' = "done" /\ r_ret' = Unhealthy("Model not loaded")
       ELSE IF model.type = "None"
       THEN r_pc' = "done" /\ r_ret' = Unhealthy("Model object is None")
       ELSE r_pc' = "health_predict" /\ r_ret' = NoResponse
    /\ UNCHANGED <<fs, fetchVars, handlerVars, loadVars, predictVars>>

\* line 292: self.predict(test_data)
HealthPredict ==
    /\ r_pc = "health_predict"
    /\ p_pc = "idle"
    /\ PredictCall(Frame(TestData(model_info)))

\* lines 294-313: the report made of what predict returned or raised
HealthFinish ==
    /\ r_pc = "health_predict"
    /\ p_pc \in {"returned", "raised"}
    /\ r_pc' = "done"
    /\ r_ret' = IF p_ret.kind = "error"
                THEN Unhealthy(<<"Model validation failed: ", p_ret.err>>)
                ELSE IF PredictionUsable(p_ret.out)
                THEN Healthy(p_ret.out[1])
                ELSE Unhealthy("Invalid test prediction")
    /\ UNCHANGED <<r_op, r_args, r_warn, r_df, fs>>
    /\ UNCHANGED <<fetchVars, handlerVars, loadVars, predictVars>>

(***************************************************************************)
(* generate_predictions, app.py lines 88-166, with get_pv_data_for_dashboard *)
(* (scrape_nasa_data csv.py lines 14-66) and get_pv_data                   *)
(* (nasa_power_client.py lines 278-306).  The request body is a JSON       *)
(* object (kind "json": fields are the keys it has) or missing (kind       *)
(* "none"); a number field holds a number or a text that float() refuses.  *)
(***************************************************************************)
Text == [k |-> "text", n |-> 0, d |-> 1]

Payload(fields, lat, lon, cap, sd, ed) ==
    [kind |-> "json", fields |-> fields, latitude |-> lat, longitude |-> lon,
     capacity |-> cap, start_date |-> sd, end_date |-> ed]

NoPayload == [Payload({}, Text, Text, Text, <<>>, <<>>) EXCEPT !.kind = "none"]

\* a response of the endpoint: jsonify(...) and the status it goes with
ErrorResponse(status, error) ==
    [kind |-> "response", status |-> status, error |-> error, predictions |-> <<>>,
     summary |-> NoArgs]

SuccessResponse(results, summary) ==
    [kind |-> "response", status |-> 200, error |-> "", predictions |-> results,
     summary |-> summary]

\* lines 163-166: `except ValueError` answers 400, `except Exception` 500,
\* each with str(e) in the error text
Caught(e) ==
    IF e.exc = "ValueError"
    THEN ErrorResponse(400, <<"Invalid input format: ", e.msg>>)
    ELSE ErrorResponse(500, <<"Prediction generation failed: ", e.msg>>)

\* lines 94-99, in the order they are evaluated: what reading the body raises
ReadPayload(data) ==
    IF data.kind = "none"
    THEN Raises("TypeError", "'NoneType' object is not subscriptable")
    ELSE IF "latitude" \notin data.fields THEN Raises("KeyError", "latitude")
    ELSE IF data.latitude = Text
    THEN Raises("ValueError", "could not convert string to float")
    ELSE IF "longitude" \notin data.fields THEN Raises("KeyError", "longitude")
    ELSE IF data.longitude = Text
    THEN Raises("ValueError", "could not convert string to float")
    ELSE IF "capacity" \in data.fields /\ data.capacity = Text
    THEN Raises("ValueError", "could not convert string to float")
    ELSE IF "start_date" \notin data.fields THEN Raises("KeyError", "start_date")
    ELSE IF "end_date" \notin data.fields THEN Raises("KeyError", "end_date")
    ELSE ReturnsTrue

\* float(data.get('capacity', 1.0))
Capacity(data) == IF "capacity" \in data.fields THEN data.capacity ELSE Int2V(1)

\* start_date.replace('-', '')
RECURSIVE RemoveDashes(_)
RemoveDashes(s) ==
    IF s = <<>> THEN <<>>
    ELSE IF Head(s) = "-" THEN RemoveDashes(Tail(s))
    ELSE <<Head(s)>> \o RemoveDashes(Tail(s))

\* line 66 of scrape_nasa_data csv.py: whatever get_pv_data raised leaves as
\* a plain Exception carrying its text
Wrapped(e) == Raises("Exception", <<"Failed to fetch NASA POWER data: ", e.msg>>)

\* the file of lines 58-59
CsvFile(lat, lon, start_date, end_date) ==
    <<"nasa_power_data", lat, lon, start_date, end_date>>

\* lines 90-115 up to the request fetch_data sends: the response given before
\* anything is fetched, or NoResponse when the fetch goes ahead
BeforeFetch(data, now) ==
    IF ~h_exists \/ NotLoaded(is_loaded) THEN ErrorResponse(500, "Model not loaded")
    ELSE IF ReadPayload(data).kind = "raise" THEN Caught(ReadPayload(data))
    ELSE IF ~LatitudeInRange(data.latitude) \/ ~LongitudeInRange(data.longitude)
    THEN ErrorResponse(400, "Invalid coordinates")
    ELSE LET ps == StrptimeWith(data.start_date, 1)
             pe == StrptimeWith(data.end_date, 1) IN
         IF ~ps.ok THEN Caught(Raises("ValueError", ps.err))
         ELSE IF ~pe.ok THEN Caught(Raises("ValueError", pe.err))
         ELSE IF ~Before(Midnight(ps.date), Midnight(pe.date))
         THEN ErrorResponse(400, "Start date must be before end date")
         ELSE IF DaysBetween(Midnight(pe.date), Midnight(ps.date)) > 365
         THEN ErrorResponse(400, "Date range cannot exceed 1 year")
         ELSE LET v == ValidateRequest(data.latitude, data.longitude,
                                       RemoveDashes(data.start_date),
                                       RemoveDashes(data.end_date), now) IN
              IF v.kind = "raise" THEN Caught(Wrapped(v)) ELSE NoResponse

\* the endpoint is called
PredictionsCall(data, now, nat) ==
    /\ r_pc = "idle"
    /\ r_op' = "generate_predictions"
    /\ r_args' = [data |-> data, now |-> now, nat |-> nat, api_response |-> NoneResponse]
    /\ r_ret' = BeforeFetch(data, now)
    /\ r_pc' = IF BeforeFetch(data, now) = NoResponse THEN "fetching" ELSE "done"
    /\ UNCHANGED <<r_warn, r_df, fs, fetchVars, handlerVars, loadVars, predictVars>>

\* get_pv_data: what it returns (the parsed table) or raises
GetPvData(f, resp, nat) ==
    IF FetchRaised(f).kind = "raise" THEN FetchRaised(f) ELSE ParseToDataframe(resp, nat)

\* df.empty: an axis of length 0
IsEmptyFrame(df) == Len(df.index) = 0 \/ DOMAIN df.t = {}

\* def predict(self, df)
PredictParameters == {"df"}

\* calling predict with the keyword arguments kw besides df
Binds(kw) == kw \subseteq PredictParameters

\* predict run from its first line to its last with nothing in between:
\* lines 179-214
PredictOnce(df) ==
    IF NotLoaded(is_loaded) THEN Raised(NotLoadedError)
    ELSE IF model.type = "None" THEN Raised("RuntimeError: Model object is None")
    ELSE IF ValidateInput(df) # "ok" THEN Raised(ValidateInput(df))
    ELSE LET res == ModelPredict(model, Preprocess(df.t)) IN
         IF ~res.ok THEN Raised(res.err)
         ELSE IF Len(res.out) # NRows(df.t)
         THEN Raised("ValueError: Prediction length mismatch")
         ELSE IF ~model_info.set THEN Raised("AttributeError")
         ELSE IF model.type = "EnsembleModel" /\ ~ensemble_info.set THEN Raised("TypeError")
         ELSE Returned([i \in 1..Len(res.out) |-> Clamp(res.out[i])])

\* round(float(x), 1): to the nearest tenth, a tie to the even one
Round1(v) ==
    IF ~IsFinite(v) THEN v
    ELSE LET q == (10 * v.n) \div v.d
             r == 10 * v.n - q * v.d IN
         IF 2 * r > v.d \/ (2 * r = v.d /\ q % 2 = 1) THEN Fin(q + 1, 10) ELSE Fin(q, 10)

\* lines 123-139: the rows and the summary made of the predictions
Results(df, predictions_kwh) ==
    LET savings == CalculateFinancialSavings(Batch("ndarray", predictions_kwh),
                                             DefaultRate)
        summary == GetPredictionSummary(Batch("ndarray", predictions_kwh), DefaultRate) IN
    IF savings.kind = "raise" THEN Caught(savings)
    ELSE IF summary.kind = "raise" THEN Caught(summary)
    ELSE SuccessResponse(
            [i \in 1..Len(df.index) |->
                [date |-> df.index[i],
                 pv_production_kwh |-> Round1(predictions_kwh[i]),
                 financial_savings_mad |-> Round1(savings.out.vals[i])]],
            summary.summary)

\* lines 117-161, for the table get_pv_data_for_dashboard returned: predict is
\* called with the keyword capacity
AfterFetch(df) ==
    IF IsEmptyFrame(df)
    THEN ErrorResponse(400, "No NASA POWER data available for this location and date range")
    ELSE IF ~Binds({"capacity"})
    THEN Caught(Raises("TypeError", "predict() got an unexpected keyword argument 'capacity'"))
    ELSE LET p == PredictOnce(Frame(df.t)) IN
         IF p.kind = "error"
         THEN Caught(Raises(IF p.err \in {"ValueError: Input data is empty",
                                          "ValueError: Prediction length mismatch"}
                            THEN "ValueError" ELSE "Exception", p.err))
         ELSE Results(df, p.out)

\* fetch_data is over: get_pv_data parses what it returned, the table is
\* written to the working directory and the rest of the endpoint runs
PredictionsFinish(resp) ==
    /\ r_pc = "fetching"
    /\ r_op = "generate_predictions"
    /\ f_pc \in {"returned", "raised"}
    /\ f_ret.kind = "data" => resp.kind = "dict"
    /\ f_ret.kind # "data" => resp = NoneResponse
    /\ r_pc' = "done"
    /\ r_args' = [r_args EXCEPT !.api_response = resp]
    /\ LET data == r_args.data
           df == GetPvData(f_ret, resp, r_args.nat) IN
       IF df.kind = "raise"
       THEN /\ r_ret' = Caught(Wrapped(df))
            /\ UNCHANGED <<r_df, fs>>
       ELSE /\ fs' = fs \cup {CsvFile(data.latitude, data.longitude,
                                      RemoveDashes(data.start_date),
                                      RemoveDashes(data.end_date))}
            /\ r_df' = df.t
            /\ r_ret' = AfterFetch(df)
    /\ UNCHANGED <<r_op, r_warn, fetchVars, handlerVars, loadVars, predictVars>>

(***************************************************************************)
(* The application: app.py loads the handler once at start (line 20) and   *)
(* then serves one request at a time.                                      *)
(***************************************************************************)

\* load_model() of app.py has run: a handler is held, or model_handler is None
Started == l_pc = "idle" /\ h_state # "Unloaded"

\* the model the example of the serving path is stated for
StubModel == ConstModel(5)

AppModels ==
    {StubModel, ConstModel(-5), Regressor("const", 5, 6), Regressor("nan", 0, 2),
     Regressor("inf", 0, 2), Regressor("raise", 0, 2)}

AppArtifacts ==
    {DirectArtifact(m) : m \in AppModels}
        \cup {DictArtifact({"models", "weights"}, <<>>, <<"A", "B">>, TwoModels(10, 20),
                           [nm \in {"A", "B"} |-> Half]),
              MissingFile}

\* "2023-06-01" and the like
Dashed(y, m, d) ==
    LET c == Strftime(YMD(y, m, d)) IN
    SubSeq(c, 1, 4) \o <<"-">> \o SubSeq(c, 5, 6) \o <<"-">> \o SubSeq(c, 7, 8)

AllFields == {"latitude", "longitude", "capacity", "start_date", "end_date"}

\* the request the serving path is described with
ExamplePayload ==
    Payload(AllFields, Int2V(0), Int2V(0), Int2V(2), Dashed(2023, 6, 1), Dashed(2023, 6, 3))

AppPayloads ==
    { ExamplePayload,
      [ExamplePayload EXCEPT !.fields = AllFields \ {"capacity"}],
      [ExamplePayload EXCEPT !.fields = AllFields \ {"latitude"}],
      [ExamplePayload EXCEPT !.fields = AllFields \ {"end_date"}],
      [ExamplePayload EXCEPT !.latitude = Text],
      [ExamplePayload EXCEPT !.capacity = Text],
      [ExamplePayload EXCEPT !.latitude = Int2V(91)],
      [ExamplePayload EXCEPT !.longitude = NaN],
      [ExamplePayload EXCEPT !.start_date = Strftime(YMD(2023, 6, 1))],
      [ExamplePayload EXCEPT !.end_date = Dashed(2023, 2, 30)],
      [ExamplePayload EXCEPT !.start_date = Dashed(2023, 6, 3)],
      [ExamplePayload EXCEPT !.start_date = Dashed(2023, 6, 4)],
      [ExamplePayload EXCEPT !.start_date = Dashed(2019, 12, 31),
                             !.end_date = Dashed(2020, 1, 2)],
      [ExamplePayload EXCEPT !.start_date = Dashed(2020, 1, 1)],
      NoPayload }

\* the three days of the example as the provider sends them, in any order
ExampleSeries(v) ==
    << [key |-> Strftime(YMD(2023, 6, 2)), value |-> v],
       [key |-> Strftime(YMD(2023, 6, 1)), value |-> v],
       [key |-> Strftime(YMD(2023, 6, 3)), value |-> v] >>

AppResponses ==
    { Response("ok", [c \in Columns |-> ExampleSeries(Int2V(20))]),
      Response("ok", [c \in {"T2M"} |-> <<>>]),
      Response("ok", <<>>),
      Response("no properties", <<>>),
      NoneResponse }

\* datetime.now() while the application is looked at
AppClocks == {now \in Clocks : now.tod = 1}

\* validate_location (app.py lines 75-81) hands on the locations in range
ServedLocations ==
    {loc \in ProbeLocations : LatitudeInRange(loc[1]) /\ LongitudeInRange(loc[2])}

InitApp == FetchIdle /\ NoHandler /\ PredictIdle /\ ReqIdle /\ file \in AppArtifacts

NextApp ==
    \/ (h_state = "Unloaded" /\ Construct)
    \/ (r_pc = "idle" /\ ReloadModel)
    \/ LoadStep
    \/ FileReplaced(MissingFile)
    \/ (Started /\ HealthCall)
    \/ HealthPredict
    \/ PredictCheckLoaded
    \/ PredictCheckModel
    \/ PredictValidate
    \/ PredictInvoke
    \/ PredictReport
    \/ HealthFinish
    \/ (Started /\ \E data \in AppPayloads, now \in AppClocks, nat \in NaTArithmetic :
            PredictionsCall(data, now, nat))
    \/ (Started /\ \E loc \in ServedLocations, now \in AppClocks, nat \in NaTArithmetic :
            AvailabilityCall(loc[1], loc[2], now, nat))
    \/ ProbeFetch
    \/ \E o \in Outcomes : FetchAttempt(o)
    \/ \E resp \in AppResponses : PredictionsFinish(resp)
    \/ \E resp \in ProbeResponses : AvailabilityFinish(resp)
    \/ RequestReturn

SpecApp == InitApp /\ [][NextApp]_vars

HealthDone == r_pc = "done" /\ r_op = "validate_model_health"

\* C15: the health check returns a report whatever happens, the report says
\* healthy exactly when predict returned one finite value for the probe and
\* then carries that value, and an unhealthy report carries a message.
C15_HealthyIffOneFiniteValue ==
    HealthDone =>
        /\ r_ret.kind = "return"
        /\ r_ret.healthy <=> /\ p_ret.kind = "predictions"
                             /\ Len(p_ret.out) = 1
                             /\ IsFinite(p_ret.out[1])
        /\ r_ret.healthy => r_ret.test_prediction = p_ret.out[1]
        /\ ~r_ret.healthy => r_ret.error # ""

PredictionsDone == r_pc = "done" /\ r_op = "generate_predictions"

ExampleResponse == Response("ok", [c \in Columns |-> ExampleSeries(Int2V(20))])

\* the example: a loaded stub model answering 5.0, the example request, and
\* the provider's three days fetched
ExampleServed ==
    /\ PredictionsDone
    /\ h_exists /\ is_loaded /\ model = OpaqueModel(StubModel)
    /\ r_args.data = ExamplePayload
    /\ f_pc = "returned" /\ r_args.api_response = ExampleResponse

\* C16: the example request succeeds with three rows dated 2023-06-01 to
\* 2023-06-03 in ascending order, each row's savings 1.2 times its
\* production, and a summary counting three days.
C16_ServingPathExample ==
    ExampleServed =>
        /\ r_ret.status = 200
        /\ [i \in 1..Len(r_ret.predictions) |-> r_ret.predictions[i].date]
              = <<YMD(2023, 6, 1), YMD(2023, 6, 2), YMD(2023, 6, 3)>>
        /\ \A i \in 1..Len(r_ret.predictions) :
              r_ret.predictions[i].financial_savings_mad
                 = MulV(r_ret.predictions[i].pv_production_kwh, Fin(6, 5))
        /\ r_ret.summary.total_days = 3

\* What the request is refused for when it is validated: a body that is
\* missing or lacks a required field, a number that is none, coordinates
\* out of range, a date not written YYYY-MM-DD, a start after the end, a
\* start before 2020-01-01.
MalformedPayload(data) ==
    \/ data.kind = "none"
    \/ {"latitude", "longitude", "start_date", "end_date"} \ data.fields # {}
    \/ data.latitude = Text \/ data.longitude = Text
    \/ ("capacity" \in data.fields /\ data.capacity = Text)

InvalidRequest(data) ==
    \/ MalformedPayload(data)
    \/ ~(LeqV(Int2V(-90), data.latitude) /\ LeqV(data.latitude, Int2V(90)))
    \/ ~(LeqV(Int2V(-180), data.longitude) /\ LeqV(data.longitude, Int2V(180)))
    \/ ~StrptimeWith(data.start_date, 1).ok
    \/ ~StrptimeWith(data.end_date, 1).ok
    \/ ToOrdinal(StrptimeWith(data.start_date, 1).date)
          > ToOrdinal(StrptimeWith(data.end_date, 1).date)
    \/ ToOrdinal(StrptimeWith(data.start_date, 1).date) < ToOrdinal(YMD(2020, 1, 1))

\* the fetch was made and it, or the parsing of what it returned, failed
CoreFailure ==
    /\ f_pc \in {"returned", "raised"}
    /\ GetPvData(f_ret, r_args.api_response, r_args.nat).kind = "raise"

\* C18: with a loaded predictor, a prediction request refused for its input
\* is answered with a 4xx status, and a failure of the fetch or of the
\* parsing with the generic 500 envelope whose text holds the original
\* message.
C18_ValidationErrorsAre4xx ==
    (PredictionsDone /\ h_exists /\ is_loaded) =>
        /\ InvalidRequest(r_args.data) => r_ret.status \in 400..499
        /\ (~InvalidRequest(r_args.data) /\ CoreFailure) =>
              /\ r_ret.status = 500
              /\ r_ret.error =
                    <<"Prediction generation failed: ",
                      <<"Failed to fetch NASA POWER data: ",
                        GetPvData(f_ret, r_args.api_response, r_args.nat).msg>>>>

\* C20: between requests nothing is left of them: no file has been written
\* to the working directory and no call is in progress.
C20_NothingOutlivesRequests ==
    r_pc = "idle" => (fs = {} /\ f_pc = "idle" /\ p_pc = "idle")

(***************************************************************************)
(* Claims about predict's validation of its input.                         *)
(***************************************************************************)
PredictDone == p_pc \in {"returned", "raised"}

LoadedPredictor == h_exists /\ is_loaded /\ model.type # "None" /\ model_info.set

\* the table has another number of columns than the model was fitted with
WidthMismatch ==
    /\ model_info.feature_count # 0
    /\ Cardinality(DOMAIN p_df.t) # model_info.feature_count

\* C19: on a loaded predictor, predict of a table without rows raises the
\* empty-input error and calls no model; predict of a table with rows and
\* another number of columns than the model expects warns, calls the model on
\* the preprocessed table, and raises exactly what the model raised when the
\* model fails.
C19_EmptyFailsMismatchWarns ==
    (PredictDone /\ LoadedPredictor /\ p_df.kind = "frame") =>
        IF NRows(p_df.t) = 0
        THEN /\ p_pc = "raised"
             /\ p_ret = Raised("ValueError: Input data is empty")
             /\ p_invoked = NoneModel
        ELSE WidthMismatch =>
                /\ p_warn
                /\ p_invoked = model
                /\ p_input = Preprocess(p_df.t)
                /\ ~ModelPredict(model, p_input).ok =>
                      /\ p_pc = "raised"
                      /\ p_ret = Raised(ModelPredict(model, p_input).err)

C19_Witness ==
    /\ PredictDone /\ LoadedPredictor /\ p_df.kind = "frame"
    /\ NRows(p_df.t) > 0
    /\ WidthMismatch
    /\ p_warn
    /\ p_invoked = model
    /\ p_pc = "raised"

(***************************************************************************)
(* Ensemble bundles whose 'weights' and 'models' need not have the same    *)
(* keys: EnsembleModel, model_handler.py lines 11-30, as load_model makes  *)
(* it (lines 73-81) and predict calls it.                                  *)
(***************************************************************************)
WeightKeySets == {{"A", "B"}, {"A"}, {"B"}, {"A", "B", "C"}, {}}

Bundle(base, W) ==
    DictArtifact({"models", "weights"}, <<>>, <<"A", "B">>, base, [nm \in W |-> Half])

BundleArtifacts ==
    {Bundle(TwoModels(10, 20), W) : W \in WeightKeySets}
        \cup {Bundle([nm \in {"A", "B"} |-> Regressor("raise", 0, 2)], {"A"}),
              DictArtifact({"models", "weights"}, <<>>, <<>>, <<>>, <<>>),
              MissingFile}

InitBundle == FetchIdle /\ NoHandler /\ PredictIdle /\ ReqIdle /\ file \in BundleArtifacts

NextBundle ==
    \/ Construct
    \/ LoadStep
    \/ (p_pc = "idle" /\ \E df \in PredictInputs : PredictCall(df))
    \/ PredictStep

SpecBundle == InitBundle /\ [][NextBundle]_vars

\* C21: an ensemble that is loaded has a weight for each of its models, and
\* no predict call on it fails for a weight that is missing.
C21_WeightsCoverModels ==
    (is_loaded /\ model.type = "EnsembleModel") =>
        /\ Range(model.names) \subseteq DOMAIN model.weights
        /\ ~(p_pc = "raised" /\ p_ret = Raised("KeyError"))

(***************************************************************************)
(* build_request_url, nasa_power_client.py lines 122-148, and fetch_data   *)
(* from its call to its loop, lines 150-198.  A URL is the sequence of the *)
(* pieces the f-strings put together.                                      *)
(***************************************************************************)
base_url == "https://power.larc.nasa.gov/api/temporal"

community == "ag"

\* self.pv_parameters
pv_parameters ==
    [essential |-> <<"ALLSKY_SFC_SW_DWN", "CLRSKY_SFC_SW_DWN", "T2M_MAX", "T2M_MIN",
                     "ALLSKY_KT", "CLOUD_AMT", "AOD_55", "WS2M">>,
     important |-> <<"T2M", "T2M_MAX", "T2M_MIN", "WS2M", "PRECTOTCORR", "RH2M",
                     "ALLSKY_KT", "ALLSKY_SFC_SW_DNI", "CLRSKY_SFC_SW_DNI",
                     "ALLSKY_SFC_SW_DIFF", "CLRSKY_SFC_SW_DIFF", "ALLSKY_SFC_SW_DWN",
                     "CLRSKY_SFC_SW_DWN", "ALLSKY_SFC_LW_DWN", "CLRSKY_SFC_LW_DWN",
                     "ALLSKY_SFC_LW_UP", "CLRSKY_SFC_LW_UP">>,
     additional |-> <<"WD2M", "WS10M", "T10M", "PRECTOTCORR", "QV2M",
                      "ALLSKY_SFC_SW_DNI", "CLRSKY_SFC_SW_DNI", "SZA">>]

\* list(dict.fromkeys(...)): the first occurrence of each name, in order
RECURSIVE WithoutDuplicates(_)
WithoutDuplicates(seq) ==
    IF seq = <<>> THEN <<>>
    ELSE LET front == WithoutDuplicates(SubSeq(seq, 1, Len(seq) - 1)) IN
         IF seq[Len(seq)] \in Range(front) THEN front ELSE Append(front, seq[Len(seq)])

\* get_all_pv_parameters
get_all_pv_parameters ==
    WithoutDuplicates(pv_parameters.essential \o pv_parameters.important
                          \o pv_parameters.additional)

\* lines 178-184
SelectParameters(parameter_set, custom_parameters) ==
    IF custom_parameters # <<>> THEN custom_parameters
    ELSE IF parameter_set = "all" THEN get_all_pv_parameters
    ELSE IF parameter_set \in DOMAIN pv_parameters THEN pv_parameters[parameter_set]
    ELSE pv_parameters.essential

RECURSIVE JoinReversed(_)
JoinReversed(parameters) ==
    IF parameters = <<>> THEN <<>>
    ELSE IF Len(parameters) = 1 THEN parameters
    ELSE JoinReversed(Tail(parameters)) \o <<",", Head(parameters)>>

\* ",".join(parameters)
RECURSIVE Join(_)
Join(parameters) ==
    IF parameters = <<>> THEN <<>>
    ELSE IF Len(parameters) = 1 THEN parameters
    ELSE <<Head(parameters), ",">> \o Join(Tail(parameters))

\* a float put into an f-string: its repr
FloatRepr(v) == [repr_of |-> v]

ReturnsUrl(url) == [kind |-> "return", exc |-> "none", msg |-> "none", url |-> url]

\* build_request_url: the URL it returns, or what the validators raise
BuildRequestUrl(lat, lon, start_date, end_date, parameters, temporal_api, output_format, now) ==
    LET v == ValidateRequest(lat, lon, start_date, end_date, now) IN
    IF v.kind = "raise" THEN v
    ELSE ReturnsUrl(<<base_url, "/", temporal_api, "/point",
                      "?start=", start_date, "&end=", end_date,
                      "&latitude=", FloatRepr(lat), "&longitude=", FloatRepr(lon),
                      "&community=", community,
                      "&parameters=", Join(parameters),
                      "&format=", output_format,
                      "&header=true&time-standard=lst">>)

QueryArgs(lat, lon, start_date, end_date, parameters, temporal_api, output_format, now) ==
    [latitude |-> lat, longitude |-> lon, start_date |-> start_date,
     end_date |-> end_date, parameters |-> parameters, temporal_api |-> temporal_api,
     output_format |-> output_format, now |-> now]

BuildRequestUrlCall(a) ==
    /\ r_pc = "idle"
    /\ r_pc' = "done"
    /\ r_op' = "build_request_url"
    /\ r_args' = a
    /\ r_ret' = BuildRequestUrl(a.latitude, a.longitude, a.start_date, a.end_date,
                                a.parameters, a.temporal_api, a.output_format, a.now)
    /\ r_warn' = IF r_ret'.kind = "return" THEN DateWarnings(a.end_date, a.now) ELSE {}
    /\ UNCHANGED <<r_df, fs, fetchVars, handlerVars, loadVars, predictVars>>

\* fetch_data is called: the parameters are selected and the URL is built
\* (lines 178-190), which is where the request is validated
FetchDataCall(a, parameter_set, custom_parameters, n, d) ==
    /\ r_pc = "idle"
    /\ r_op' = "fetch_data"
    /\ LET url == BuildRequestUrl(a.latitude, a.longitude, a.start_date, a.end_date,
                                  SelectParameters(parameter_set, custom_parameters),
                                  a.temporal_api, "json", a.now) IN
       /\ r_args' = [a EXCEPT !.parameters = SelectParameters(parameter_set,
                                                              custom_parameters),
                              !.output_format = "json"]
                       @@ [max_retries |-> n, retry_delay |-> d, url |-> url]
       /\ IF url.kind = "raise"
          THEN r_pc' = "done" /\ r_ret' = url
          ELSE r_pc' = "requesting" /\ r_ret' = NoResponse
    /\ UNCHANGED <<r_warn, r_df, fs, fetchVars, handlerVars, loadVars, predictVars>>

\* line 199: the loop is entered with the budget of the call
FetchDataLoop ==
    /\ r_pc = "requesting"
    /\ FetchCall(r_args.max_retries, r_args.retry_delay)

ReturnsValue(v) == [kind |-> "return", exc |-> "none", msg |-> "none", value |-> v]

\* fetch_data is over: its caller has the response, None, or the exception
FetchDataFinish ==
    /\ r_pc = "requesting"
    /\ f_pc \in {"returned", "raised"}
    /\ r_pc' = "done"
    /\ r_ret' = IF FetchRaised(f_ret).kind = "raise" THEN FetchRaised(f_ret)
                ELSE ReturnsValue(f_ret.kind)
    /\ UNCHANGED <<r_op, r_args, r_warn, r_df, fs>>
    /\ UNCHANGED <<fetchVars, handlerVars, loadVars, predictVars>>

\* ---- build_request_url and fetch_data called one at a time
QueryLocations == { <<Int2V(0), Int2V(0)>>, <<Fin(67, 2), Int2V(-7)>>, <<Int2V(91), Int2V(0)>> }

QueryDates ==
    { <<Strftime(YMD(2023, 6, 10)), Strftime(YMD(2023, 6, 13))>>,
      <<Strftime(YMD(2023, 6, 10)), Strftime(YMD(2023, 6, 10))>>,
      <<Strftime(YMD(2023, 6, 10)), Strftime(YMD(2023, 6, 20))>>,
      <<Strftime(YMD(2023, 6, 13)), Strftime(YMD(2023, 6, 10))>>,
      <<Strftime(YMD(2019, 12, 31)), Strftime(YMD(2020, 1, 1))>>,
      <<Dashed(2023, 6, 10), Strftime(YMD(2023, 6, 13))>> }

ParameterLists ==
    { <<>>, <<"T2M">>, <<"T2M", "WS2M">>, <<"WS2M", "T2M">>, <<"T2M", "T2M">>,
      <<"T2M", "WS2M", "RH2M">> }

QueryInputs ==
    { QueryArgs(loc[1], loc[2], ds[1], ds[2], ps, api, fmt, now) :
        loc \in QueryLocations, ds \in QueryDates, ps \in ParameterLists,
        api \in {"daily", "monthly"}, fmt \in {"json", "csv"}, now \in Clocks }

FetchInputs ==
    { a \in QueryInputs : /\ a.parameters = <<>> /\ a.temporal_api = "daily"
                          /\ a.output_format = "json" /\ a.now.tod = 1 }

\* parameter_set and custom_parameters as fetch_data is called with them
ParameterChoices ==
    { <<"essential", <<>>>>, <<"all", <<>>>>, <<"hourly", <<>>>>,
      <<"important", <<"T2M", "ALLSKY_SFC_SW_DWN">>>> }

RetryBudgets == (-1)..MaxRetriesBound

InitQuery == FetchIdle /\ NoHandler /\ PredictIdle /\ ReqIdle /\ file = MissingFile

NextQuery ==
    \/ (r_pc = "idle" /\ \E a \in QueryInputs : BuildRequestUrlCall(a))
    \/ (r_pc = "idle" /\ \E a \in FetchInputs, pc \in ParameterChoices,
                            n \in RetryBudgets, d \in 1..MaxDelay :
            FetchDataCall(a, pc[1], pc[2], n, d))
    \/ FetchDataLoop
    \/ \E o \in Outcomes : FetchAttempt(o)
    \/ FetchFallThrough
    \/ FetchDataFinish
    \/ RequestReturn

SpecQuery == InitQuery /\ [][NextQuery]_vars

(***************************************************************************)
(* Claims about the request the client builds and sends.                   *)
(***************************************************************************)
BuildDone == r_pc = "done" /\ r_op = "build_request_url"

\* the names with a comma between each two, first to last
CommaJoined(names) ==
    [i \in 1..(IF names = <<>> THEN 0 ELSE 2 * Len(names) - 1) |->
        IF i % 2 = 1 THEN names[(i + 1) \div 2] ELSE ","]

\* the inputs the validators let through, the clock apart
AcceptedQuery(a) ==
    /\ InsideClosed(a.latitude, -90, 90)
    /\ InsideClosed(a.longitude, -180, 180)
    /\ Strptime(a.start_date).ok /\ Strptime(a.end_date).ok
    /\ ToOrdinal(Strptime(a.start_date).date) <= ToOrdinal(Strptime(a.end_date).date)
    /\ ToOrdinal(Strptime(a.start_date).date) >= ToOrdinal(YMD(2020, 1, 1))

\* C22: what build_request_url gives is fixed by its arguments alone, not by
\* the clock or by the calls made before: for arguments the validators let
\* through it is the URL with start and end as given, the location, the
\* community, the parameters comma-joined in the order given, the format and
\* the flags header=true and time-standard=lst; for the others it is an
\* error.  Nothing the client or the handler holds is changed by the call.
C22_QueryIsAFunctionOfItsInputs ==
    BuildDone =>
        /\ IF AcceptedQuery(r_args)
           THEN r_ret = ReturnsUrl(
                    <<"https://power.larc.nasa.gov/api/temporal", "/",
                      r_args.temporal_api, "/point",
                      "?start=", r_args.start_date, "&end=", r_args.end_date,
                      "&latitude=", FloatRepr(r_args.latitude),
                      "&longitude=", FloatRepr(r_args.longitude),
                      "&community=", "ag",
                      "&parameters=", CommaJoined(r_args.parameters),
                      "&format=", r_args.output_format,
                      "&header=true&time-standard=lst">>)
           ELSE ValidationError(r_ret)
        /\ f_pc = "idle" /\ fs = {} /\ ~h_exists

C22_Witness ==
    /\ BuildDone
    /\ r_ret.kind = "return"
    /\ Len(r_args.parameters) = 3
    /\ r_warn # {}

RECURSIVE TotalWait(_)
TotalWait(waits) == IF waits = <<>> THEN 0 ELSE Head(waits) + TotalWait(Tail(waits))

RECURSIVE BackoffBudget(_, _)
BackoffBudget(delay, n) ==
    IF n <= 0 THEN 0 ELSE BackoffBudget(delay, n - 1) + delay * (2 ^ (n - 1))

\* C24: the i-th wait of a fetch (i from 0) lasts retry_delay x 2^i and comes
\* after failed attempt i when another attempt follows; the attempt that ends
\* the fetch is followed by no wait; the waits of a fetch add up to no more
\* than the sum of retry_delay x 2^i over i in [0, max_retries).
C24_ExponentialBackoff ==
    f_pc # "idle" =>
        /\ \A i \in 1..Len(f_waits) :
              /\ f_waits[i] = retry_delay * (2 ^ (i - 1))
              /\ f_hist[i] \in TransportFailures
              /\ i < max_retries
        /\ Len(f_waits) = IF f_pc = "loop" THEN Len(f_hist)
                          ELSE IF f_hist = <<>> THEN 0 ELSE Len(f_hist) - 1
        /\ TotalWait(f_waits) <= BackoffBudget(retry_delay, max_retries)

\* Three failures with a base delay of 2: waits of 2 and 4, none after the last.
C24_Witness ==
    /\ max_retries = 3
    /\ retry_delay = 2
    /\ f_pc = "raised"
    /\ f_ret.kind = "DataSourceUnavailable"
    /\ f_waits = <<2, 4>>

\* C26: fetch_data never returns without a response: when it is over it has
\* returned the provider's response or raised.
C26_FetchNeverReturnsNone ==
    f_pc = "returned" => f_ret.kind = "data"

FetchDataCalled == r_op = "fetch_data" /\ r_pc # "idle"

\* C25: a fetch_data call whose coordinates or dates are refused ends with
\* the validation error without a request sent and without a wait, whatever
\* max_retries and retry_delay it was given; a call that sends a request has
\* arguments the validators accepted.
C25_ValidationBeforeTransport ==
    FetchDataCalled =>
        IF AcceptedQuery(r_args)
        THEN r_pc = "done" => ~ValidationError(r_ret)
        ELSE /\ r_pc = "done"
             /\ ValidationError(r_ret)
             /\ f_pc = "idle" /\ f_hist = <<>> /\ f_waits = <<>>

\* Dates refused on a call allowed three attempts.
C25_Witness ==
    /\ FetchDataCalled
    /\ r_pc = "done"
    /\ r_args.max_retries = 3
    /\ InsideClosed(r_args.latitude, -90, 90)
    /\ ~AcceptedQuery(r_args)
    /\ ValidationError(r_ret)
    /\ f_hist = <<>>


(***************************************************************************)
(* NASAPowerGEOSITClient.add_derived_features (lines 308-387).  A table is *)
(* held here by its column names, in order, and its number of rows: the    *)
(* function's branches read nothing else.  Its index holds dates, as in    *)
(* every table parse_to_dataframe returns.                                 *)
(***************************************************************************)
WeatherTable(columns, rows) == [columns |-> columns, rows |-> rows]

\* the function's two names and whether they name the same table
Locals(df, df_enhanced, shared) ==
    [df |-> df, df_enhanced |-> df_enhanced, shared |-> shared]

\* `df_enhanced = df` : both names for the caller's table
SameTable(df) == Locals(df, df, TRUE)

\* `df_enhanced = df.copy()` (line 319)
CopyTable(df) == Locals(df, df, FALSE)

\* `df_enhanced[name] = ...` : a new last column, or the column of that
\* name written over
SetColumn(e, name) ==
    LET t   == e.df_enhanced
        new == WeatherTable(IF name \in Range(t.columns) THEN t.columns
                            ELSE Append(t.columns, name), t.rows)
    IN  Locals(IF e.shared THEN new ELSE e.df, new, e.shared)

RECURSIVE SetColumns(_, _)
SetColumns(e, names) ==
    IF names = <<>> THEN e
    ELSE SetColumns(SetColumn(e, Head(names)), Tail(names))

\* `if <inputs> in df.columns:` followed by the assignments of `names`
WhenPresent(e, inputs, names) ==
    IF inputs \subseteq Range(e.df.columns) THEN SetColumns(e, names) ELSE e

\* lines 322-357
PhysicalFeatures(e0) ==
    LET e1 == WhenPresent(e0, {"T2M"}, <<"temp_coeff_effect">>)
        e2 == WhenPresent(e1, {"T2M_MAX", "T2M_MIN"}, <<"temp_range", "temp_avg">>)
        e3 == WhenPresent(e2, {"ALLSKY_SFC_SW_DIFF", "ALLSKY_SFC_SW_DWN"},
                          <<"diffuse_fraction">>)
        e4 == WhenPresent(e3, {"CLRSKY_SFC_SW_DWN", "ALLSKY_SFC_SW_DWN"},
                          <<"clearness_index">>)
        e5 == WhenPresent(e4, {"ALLSKY_SFC_SW_DNI", "ALLSKY_SFC_SW_DWN"},
                          <<"dni_ghi_ratio">>)
        e6 == WhenPresent(e5, {"RH2M", "T2M"}, <<"heat_index_factor">>)
    IN  WhenPresent(e6, {"WS2M"}, <<"wind_cooling_factor">>)

\* lines 360-374: computed from the index and from each other
CalendarFeatures(e) ==
    SetColumns(e, <<"day_of_year", "month", "season", "is_summer",
                    "solar_declination", "day_sin", "day_cos",
                    "month_sin", "month_cos">>)

\* rolling(window=7, ...) and `len(df_enhanced) >= 7` (lines 377, 381)
RollingWindow == 7

RollingColumns == <<"ALLSKY_SFC_SW_DWN", "T2M", "ALLSKY_KT">>

\* f'{col}_7day_avg' (line 380)
Suffixed(col) == col \o "_7day_avg"

RECURSIVE RollingOver(_, _)
RollingOver(e, cols) ==
    IF cols = <<>> THEN e
    ELSE RollingOver(IF Head(cols) \in Range(e.df_enhanced.columns)
                     THEN SetColumn(e, Suffixed(Head(cols))) ELSE e,
                     Tail(cols))

\* lines 377-382
RollingFeatures(e) ==
    IF e.df_enhanced.rows >= RollingWindow THEN RollingOver(e, RollingColumns) ELSE e

AddDerivedFeatures(df) ==
    RollingFeatures(CalendarFeatures(PhysicalFeatures(CopyTable(df))))

\* the caller's `out = client.add_derived_features(df)`: r_args keeps the
\* table as the caller passed it and as the caller holds it afterwards
AddDerivedFeaturesCall(df) ==
    LET e == AddDerivedFeatures(df) IN
    /\ r_pc = "idle"
    /\ r_pc' = "done"
    /\ r_op' = "add_derived_features"
    /\ r_args' = [passed |-> df, df |-> e.df, added_features |->
                      Len(e.df_enhanced.columns) - Len(df.columns)]
    /\ r_ret' = Frame(e.df_enhanced)
    /\ r_warn' = {}
    /\ UNCHANGED <<r_df, fs, fetchVars, handlerVars, loadVars, predictVars>>

\* the columns of the tables passed: parameters the client asks the
\* provider for, among them every one a derived feature reads
WeatherColumns ==
    <<"ALLSKY_SFC_SW_DWN", "CLRSKY_SFC_SW_DWN", "T2M_MAX", "T2M_MIN", "ALLSKY_KT",
      "WS2M", "T2M", "RH2M", "ALLSKY_SFC_SW_DNI", "ALLSKY_SFC_SW_DIFF", "CLOUD_AMT">>

Keep(seq, S) == SelectSeq(seq, LAMBDA c : c \in S)

MaxTableRows == RollingWindow + 1

EnrichInputs ==
    {WeatherTable(Keep(WeatherColumns, S), n) :
        S \in SUBSET Range(WeatherColumns), n \in 0..MaxTableRows}

InitEnrich == FetchIdle /\ NoHandler /\ PredictIdle /\ ReqIdle /\ file = MissingFile

NextEnrich ==
    \/ \E df \in EnrichInputs : AddDerivedFeaturesCall(df)
    \/ RequestReturn

SpecEnrich == InitEnrich /\ [][NextEnrich]_vars

(***************************************************************************)
(* Claims about the derived features.                                      *)
(***************************************************************************)
EnrichDone == r_pc = "done" /\ r_op = "add_derived_features"

\* what each derived feature is computed from
FeatureInputs ==
    [name \in {"temp_coeff_effect", "temp_range", "temp_avg", "diffuse_fraction",
               "clearness_index", "dni_ghi_ratio", "heat_index_factor",
               "wind_cooling_factor"} |->
        CASE name = "temp_coeff_effect"   -> {"T2M"}
          [] name = "temp_range"          -> {"T2M_MAX", "T2M_MIN"}
          [] name = "temp_avg"            -> {"T2M_MAX", "T2M_MIN"}
          [] name = "diffuse_fraction"    -> {"ALLSKY_SFC_SW_DIFF", "ALLSKY_SFC_SW_DWN"}
          [] name = "clearness_index"     -> {"ALLSKY_SFC_SW_DWN", "CLRSKY_SFC_SW_DWN"}
          [] name = "dni_ghi_ratio"       -> {"ALLSKY_SFC_SW_DNI", "ALLSKY_SFC_SW_DWN"}
          [] name = "heat_index_factor"   -> {"RH2M", "T2M"}
          [] name = "wind_cooling_factor" -> {"WS2M"}]

DateFeatures ==
    {"day_of_year", "month", "season", "is_summer", "solar_declination",
     "day_sin", "day_cos", "month_sin", "month_cos"}

\* the derived features a table of these columns and rows is due
Derivable(df) ==
    {name \in DOMAIN FeatureInputs : FeatureInputs[name] \subseteq Range(df.columns)}
        \cup DateFeatures
        \cup {Suffixed(col) : col \in {c \in Range(RollingColumns) :
                                  c \in Range(df.columns) /\ df.rows >= RollingWindow}}

\* C23: add_derived_features returns a table whatever columns are absent;
\* the table has the passed columns first and then exactly the derived
\* features whose inputs are all present (the nine date features always, a
\* rolling average only with 7 rows or more), one column each; and the
\* caller's table is as it was passed.
C23_FeaturesFollowTheirInputs ==
    EnrichDone =>
        LET df == r_args.passed  out == r_ret.t IN
        /\ r_ret.kind = "frame"
        /\ SubSeq(out.columns, 1, Len(df.columns)) = df.columns
        /\ Range(out.columns) \ Range(df.columns) = Derivable(df)
        /\ Len(out.columns) = Len(df.columns) + Cardinality(Derivable(df))
        /\ r_args.added_features = Cardinality(Derivable(df))
        /\ out.rows = df.rows
        /\ r_args.df = df

\* a table of 7 rows with one temperature column only
C23_Witness ==
    /\ EnrichDone
    /\ r_args.passed = WeatherTable(<<"T2M">>, RollingWindow)
    /\ r_ret.t.columns = <<"T2M", "temp_coeff_effect", "day_of_year", "month", "season",
                           "is_summer", "solar_declination", "day_sin", "day_cos",
                           "month_sin", "month_cos", Suffixed("T2M")>>


(***************************************************************************)
(* Claims about the handler between its operations.                        *)
(***************************************************************************)

\* no load_model is running
BetweenLoads == l_pc = "idle"

\* C27: whenever no load is in progress, after any construction, reloads,
\* health checks and requests served, is_loaded is true exactly when
\* self.model is set, and a model that is set has a predict method.
C27_LoadedIffModelPresent ==
    BetweenLoads =>
        /\ is_loaded <=> model # NoneModel
        /\ model # NoneModel => model.type \in {"Opaque", "EnsembleModel"}
        /\ model.type = "Opaque" => model.obj.beh # "none"

\* a health check answered after the reload of a loaded handler failed
C27_Witness ==
    /\ BetweenLoads /\ h_exists
    /\ h_prev = "Loaded" /\ h_state = "Failed"
    /\ ~is_loaded /\ model = NoneModel
    /\ r_pc = "done" /\ r_op = "validate_model_health"


\* get_model_metrics (lines 251-264): the status, and model_info if it is set
GetModelMetrics(loaded, info) ==
    [status |-> IF loaded THEN "loaded" ELSE "not_loaded",
     metadata |-> IF info.set THEN info ELSE NoInfo]

\* the metadata computed of a model and of nothing else
DescriptionOf(m) ==
    ExtractModelInfo(m, IF m.type = "EnsembleModel" THEN GetModelInfo(m) ELSE NoEns)

\* C28: when load_model has returned or raised, get_model_metrics describes
\* the artifact in use: after a load that succeeded the model type, feature
\* count and ensemble members are those of self.model (no ensemble members
\* for a model that is no ensemble), and after one that failed the status
\* is not_loaded and no metadata is reported.
C28_MetadataDescribesActiveArtifact ==
    LoadFinished =>
        LET m == GetModelMetrics(is_loaded, model_info) IN
        IF h_state = "Loaded"
        THEN /\ m.status = "loaded"
             /\ m.metadata = DescriptionOf(model)
             /\ model.type # "EnsembleModel" => ~m.metadata.ens.set
        ELSE /\ m.status = "not_loaded"
             /\ m.metadata = NoInfo


(***************************************************************************)
(* The reload endpoint, app.py lines 242-262, beside the predictions       *)
(* endpoint: the application loads its handler at start and then serves    *)
(* one request at a time, while the model file may be replaced.            *)
(***************************************************************************)
ReloadedResponse ==
    [kind |-> "response", status |-> 200, error |-> "", predictions |-> <<>>,
     summary |-> [success |-> TRUE, message |-> "Model reloaded successfully"]]

ReloadAnswerHandlerOnly(raised, err, held, loaded) ==
    IF held THEN ReloadedResponse ELSE ErrorResponse(500, "Failed to reload model")

\* lines 252-262: the answer, given whether reload_model raised (and what),
\* whether model_handler is set and whether it is loaded
ReloadAnswer(raised, err, held, loaded) ==
    IF raised THEN ErrorResponse(500, <<"Model reload failed: ", err>>)
    ELSE IF held /\ loaded THEN ReloadedResponse
    ELSE ErrorResponse(500, "Failed to reload model")

\* lines 246-250: reload_model of the handler held, or load_model of app.py,
\* which constructs one; either way load_model of the handler is entered
ReloadEndpointCall ==
    /\ r_pc = "idle"
    /\ l_pc = "idle"
    /\ r_pc' = "reloading"
    /\ r_op' = "reload_model"
    /\ r_args' = [held |-> h_exists]
    /\ r_ret' = NoResponse
    /\ IF h_exists
       THEN UNCHANGED <<model, model_info, is_loaded, ensemble_info>>
       ELSE /\ model' = NoneModel
            /\ model_info' = NoInfo
            /\ is_loaded' = FALSE
            /\ ensemble_info' = NoEns
    /\ l_pc' = "open"
    /\ l_ctor' = ~h_exists
    /\ l_obj' = NoArtifact
    /\ l_err' = NoErr
    /\ h_prev' = h_state
    /\ h_state' = "Loading"
    /\ UNCHANGED <<file, h_exists, h_stable, r_warn, r_df, fs, fetchVars, predictVars>>

\* load_model has returned or raised: an exception of reload_model reaches
\* the endpoint's handler (line 261), one of the constructor is kept by
\* load_model of app.py (lines 22-24)
ReloadEndpointFinish ==
    /\ r_pc = "reloading"
    /\ l_pc = "idle"
    /\ r_pc' = "done"
    /\ r_ret' = ReloadAnswer(r_args.held /\ h_state = "Failed", l_err.type,
                             h_exists, is_loaded)
    /\ UNCHANGED <<r_op, r_args, r_warn, r_df, fs>>
    /\ UNCHANGED <<fetchVars, handlerVars, loadVars, predictVars>>

ReloadArtifacts ==
    {DirectArtifact(StubModel),
     DictArtifact({"models", "weights"}, <<>>, <<"A", "B">>, TwoModels(10, 20),
                  [nm \in {"A", "B"} |-> Half]),
     DictArtifact({"scaler"}, <<>>, <<>>, <<>>, <<>>),
     MissingFile}

InitReload == FetchIdle /\ NoHandler /\ PredictIdle /\ ReqIdle /\ file \in ReloadArtifacts

NextReload ==
    \/ (h_state = "Unloaded" /\ Construct)
    \/ LoadStep
    \/ (Started /\ ReloadEndpointCall)
    \/ ReloadEndpointFinish
    \/ \E a \in ReloadArtifacts : FileReplaced(a)
    \/ (Started /\ \E now \in AppClocks, nat \in NaTArithmetic :
            PredictionsCall(ExamplePayload, now, nat))
    \/ ProbeFetch
    \/ \E o \in Outcomes : FetchAttempt(o)
    \/ \E resp \in AppResponses : PredictionsFinish(resp)
    \/ RequestReturn

SpecReload == InitReload /\ [][NextReload]_vars

(***************************************************************************)
(* Claims about reloading while requests are served.                       *)
(***************************************************************************)
ReloadAnswered == r_pc = "done" /\ r_op = "reload_model"

\* a handler is held and its load has succeeded: the state Loaded
PredictorLoaded == h_exists /\ is_loaded /\ h_state = "Loaded"

RejectedNotLoaded ==
    /\ r_pc = "done"
    /\ r_ret = ErrorResponse(500, "Model not loaded")
    /\ f_pc = "idle"

\* C29: a reload request answers 200 exactly when the predictor is loaded
\* as it answers, with or without a handler before it; the predictor's
\* state changes only at start and inside reload requests; and while the
\* last load has failed, every predictions request is answered 500 "Model
\* not loaded" with no fetch started.
C29_ReloadReportsTheOutcome ==
    [][ /\ (r_pc' = "done" /\ r_op' = "reload_model") =>
              /\ r_ret'.status \in {200, 500}
              /\ r_ret'.status = 200 <=> PredictorLoaded'
              /\ r_ret'.status = 500 <=> (h_state' = "Failed" /\ ~is_loaded')
        /\ (h_state' # h_state \/ is_loaded' # is_loaded) =>
              (h_prev' = "Unloaded" \/ (r_op' = "reload_model" /\ r_pc' = "reloading"))
        /\ (h_state' = "Failed" /\ r_op' = "generate_predictions") => RejectedNotLoaded'
        /\ (h_state' = "Failed" /\ r_pc' = "fetching") => FALSE
      ]_vars

\* the reload of a loaded handler has failed, and a predictions request
\* made after it is refused
C29_Witness ==
    /\ h_exists
    /\ h_prev = "Loaded"
    /\ h_state = "Failed"
    /\ r_op = "generate_predictions"
    /\ RejectedNotLoaded


(***************************************************************************)
(* One handler whose predict and health check are called one at a time,    *)
(* between loads, with tables that need repair among the inputs.           *)
(***************************************************************************)
ReadOnlyArtifacts ==
    {DirectArtifact(StubModel),
     DictArtifact({"models", "weights"}, <<>>, <<"A", "B">>, TwoModels(10, 20),
                  [nm \in {"A", "B"} |-> Half]),
     MissingFile}

ReadOnlyInputs ==
    PredictInputs \cup
        {NoneInput,
         Frame([c \in Columns |-> IF c = "T2M" THEN <<PInf, Int2V(1)>>
                                  ELSE <<Int2V(2), Int2V(2)>>])}

InitReadOnly == FetchIdle /\ NoHandler /\ PredictIdle /\ ReqIdle /\ file \in ReadOnlyArtifacts

NextReadOnly ==
    \/ (h_state = "Unloaded" /\ Construct)
    \/ (r_pc = "idle" /\ p_pc = "idle" /\ ReloadModel)
    \/ LoadStep
    \/ FileReplaced(MissingFile)
    \/ (Started /\ r_pc = "idle" /\ \E df \in ReadOnlyInputs : PredictCall(df))
    \/ (Started /\ p_pc = "idle" /\ HealthCall)
    \/ HealthPredict
    \/ PredictCheckLoaded \/ PredictCheckModel \/ PredictValidate \/ PredictInvoke
    \/ PredictReport
    \/ (r_pc = "idle" /\ PredictReturn)
    \/ HealthFinish
    \/ RequestReturn

SpecReadOnly == InitReadOnly /\ [][NextReadOnly]_vars

\* C30: a step of predict or of the health check leaves self.model,
\* self.is_loaded, self.model_info and self.ensemble_info as they are, and
\* from the call of predict to its return or raise the caller's table is
\* the one passed; the repaired cells are in df_processed only.
C30_PredictAndHealthAreReadOnly ==
    [][ /\ (p_pc' # p_pc \/ r_pc' # r_pc) =>
              UNCHANGED <<model, is_loaded, model_info, ensemble_info>>
        /\ (p_pc # "idle" /\ p_pc' # "idle") => p_df' = p_df
        /\ (p_pc = "validate" /\ p_pc' = "invoke") => p_input' = Preprocess(p_df'.t)
      ]_vars

\* predict has returned for a table with a missing cell: the cell is still
\* missing in the caller's table and filled in the table the model was given
C30_Witness ==
    /\ p_pc = "returned"
    /\ is_loaded
    /\ p_invoked = model
    /\ IsNaN(p_df.t["T2M"][1])
    /\ ~IsNaN(p_input["T2M"][1])
    /\ p_ret.kind = "predictions"

====
